---- MODULE Spec2Model ----
(***************************************************************************)
(* A model of the Notion scripts of this repository: the task filter tool  *)
(* (simpleNotionTaskFilter.js), the page-creation script (index.js), the   *)
(* database bootstrap script, the simple filter/export script, the task    *)
(* counters and the interactive page tool.                                 *)
(*                                                                         *)
(* A workflow is the code between the start of a script (or of one menu    *)
(* handler) and its end.  Every `await` of a Database Service call is two  *)
(* steps: the workflow puts the request in `inflight`, the service answers *)
(* it (ServiceRespond) with success or failure, and the workflow resumes   *)
(* with the code that follows the await.                                   *)
(*                                                                         *)
(* Strings that the code inspects character by character (property names)  *)
(* are sequences of one-character strings; a character outside ASCII is    *)
(* written by its code point ("U671F" is U+671F).  Calendar-date strings   *)
(* (YYYY-MM-DD) are day ordinals, which order the same way.                *)
(***************************************************************************)
EXTENDS Integers, Sequences, FiniteSets, TLC

VARIABLES
  script,        \* which script / menu handler is running
  environment,   \* process.env: whether NOTION_KEY (key) and NOTION_DATABASE_ID (db) are set
  pc,            \* position of the running workflow
  remoteSchema,  \* the database's properties as the service holds them
  dbProps,       \* the workflow's fetched schema (Object.keys order)
  dateProp,      \* const dateProp
  checkboxProp,  \* const checkboxProp
  titleProperty, \* const titleProperty
  todayStr,      \* const todayStr (a day ordinal; 0 before it is computed)
  args,          \* command line arguments / prompt answers of the workflow
  inflight,      \* the Database Service call awaiting its response
  log,           \* the Database Service calls of this workflow, completed, in order
  lastOk,        \* whether the last awaited call resolved (TRUE) or rejected
  lastCount,     \* results.length of the last Query or search response
  lastId,        \* id of the page the last CreateRecord response returned
  outcome,       \* how the workflow ended
  failures,      \* kinds of step that failed in this workflow
  rl,            \* the readline interface of the interactive tool
  propValue,     \* a property value of a record the service returned
  projected      \* what an export path made of propValue

vars == << script, environment, pc, remoteSchema, dbProps, dateProp,
           checkboxProp, titleProperty, todayStr, args, inflight, log, lastOk,
           lastCount, lastId, outcome, failures, rl, propValue, projected >>

\* What no step of a workflow changes
env == << script, environment, remoteSchema, propValue, projected >>

\* The local constants of a workflow
locals == << dbProps, dateProp, checkboxProp, titleProperty, todayStr, args >>

\* The last response
resp == << lastOk, lastCount, lastId >>

----------------------------------------------------------------------------
(* Bounds of the model *)

MaxCols == 2
MaxPages == 2

----------------------------------------------------------------------------
(* Strings *)

\* String.prototype.toLowerCase on one character
LowerChar(c) ==
  CASE c = "A" -> "a" [] c = "B" -> "b" [] c = "C" -> "c" [] c = "D" -> "d"
    [] c = "E" -> "e" [] c = "F" -> "f" [] c = "G" -> "g" [] c = "H" -> "h"
    [] c = "I" -> "i" [] c = "J" -> "j" [] c = "K" -> "k" [] c = "L" -> "l"
    [] c = "M" -> "m" [] c = "N" -> "n" [] c = "O" -> "o" [] c = "P" -> "p"
    [] c = "Q" -> "q" [] c = "R" -> "r" [] c = "S" -> "s" [] c = "T" -> "t"
    [] c = "U" -> "u" [] c = "V" -> "v" [] c = "W" -> "w" [] c = "X" -> "x"
    [] c = "Y" -> "y" [] c = "Z" -> "z" [] OTHER -> c

\* key.toLowerCase()
ToLowerCase(s) == [i \in DOMAIN s |-> LowerChar(s[i])]

\* s.includes(sub)
Includes(s, sub) ==
  \E i \in 0..(Len(s) - Len(sub)) : SubSeq(s, i + 1, i + Len(sub)) = sub

\* undefined (what Array.prototype.find returns when nothing matches)
Undefined == << >>

\* JavaScript truthiness of a property name or undefined
Truthy(x) == x # Undefined

Max(S) == CHOOSE m \in S : \A n \in S : m >= n

Min(S) == CHOOSE m \in S : \A n \in S : m <= n

----------------------------------------------------------------------------
(* The database schema *)

Kinds == {"title", "rich_text", "number", "select", "multi_select", "date",
          "checkbox", "status"}

\* Property names
NTask     == << "T", "a", "s", "k" >>
NDue      == << "D", "u", "e" >>
NDEADLINE == << "D", "E", "A", "D", "L", "I", "N", "E" >>
NUpdate   == << "U", "p", "d", "a", "t", "e" >>
NKigen    == << "U671F", "U9650" >>
NStart    == << "S", "t", "a", "r", "t" >>
NDone     == << "D", "o", "n", "e" >>
NCOMPLETE == << "C", "O", "M", "P", "L", "E", "T", "E", "D" >>
NKanryo   == << "U5B8C", "U4E86" >>
NFlag     == << "F", "l", "a", "g" >>
NTags     == << "T", "a", "g", "s" >>

\* A property without options, and a select property with its options
Col(n, k) == [name |-> n, type |-> k, options |-> << >>]
ColOpt(n, k, opts) == [name |-> n, type |-> k, options |-> opts]

\* The columns of the databases the task filter tool is run on: the names
\* with and without a keyword, on columns of the kind looked for and of others
Columns ==
  { Col(NTask, "title"),
    Col(NDue, "date"), Col(NDEADLINE, "date"), Col(NUpdate, "date"),
    Col(NKigen, "date"), Col(NStart, "date"), Col(NDue, "rich_text"),
    Col(NDone, "checkbox"), Col(NCOMPLETE, "checkbox"),
    Col(NKanryo, "checkbox"), Col(NFlag, "checkbox"),
    ColOpt(NDone, "select", << "Low", "High" >>) }

\* The columns of the databases the other scripts are run on: one column of
\* each kind, and a select property with and without options
PageColumns ==
  { Col(NTask, "title"), Col(NDue, "date"), Col(NUpdate, "rich_text"),
    Col(NDone, "checkbox"), ColOpt(NFlag, "select", << "Low", "High" >>),
    Col(NKanryo, "select"), Col(NTags, "multi_select"),
    Col(NStart, "number") }

\* Property names are unique within a database (they are the keys of an object)
UniqueNames(s) == \A i, j \in DOMAIN s : s[i].name = s[j].name => i = j

\* Schemas in Object.keys order, of at most MaxCols columns
SchemasOf(columns) ==
  UNION { { s \in [1..n -> columns] : UniqueNames(s) } : n \in 0..MaxCols }

Schemas == SchemasOf(Columns)
PageSchemas == SchemasOf(PageColumns)

----------------------------------------------------------------------------
(* Property resolution (simpleNotionTaskFilter.js) *)

KwKigen    == << "U671F", "U9650" >>
KwDue      == << "d", "u", "e" >>
KwDate     == << "d", "a", "t", "e" >>
KwDeadline == << "d", "e", "a", "d", "l", "i", "n", "e" >>
KwKanryo   == << "U5B8C", "U4E86" >>
KwDone     == << "d", "o", "n", "e" >>
KwComplete == << "c", "o", "m", "p", "l", "e", "t", "e" >>

\* The callback of the dateProp find
IsDateKey(col) ==
  /\ col.type = "date"
  /\ \/ Includes(ToLowerCase(col.name), KwKigen)
     \/ Includes(ToLowerCase(col.name), KwDue)
     \/ Includes(ToLowerCase(col.name), KwDate)
     \/ Includes(ToLowerCase(col.name), KwDeadline)

\* Mutant of IsCheckboxKey: the keyword test is dropped
IsCheckboxKeyAnyName(col) == col.type = "checkbox"

\* The callback of the checkboxProp find
IsCheckboxKey(col) ==
  /\ col.type = "checkbox"
  /\ \/ Includes(ToLowerCase(col.name), KwKanryo)
     \/ Includes(ToLowerCase(col.name), KwDone)
     \/ Includes(ToLowerCase(col.name), KwComplete)

\* The callback of the titleProp find
IsTitleKey(col) == col.type = "title"

\* Mutant of FindDateProp: the last key the callback accepts
FindDatePropLast(props) ==
  LET hits == { i \in DOMAIN props : IsDateKey(props[i]) }
  IN  IF hits = {} THEN Undefined ELSE props[Max(hits)].name

\* Object.keys(dbProps).find(key => ...): the first key the callback accepts
FindDateProp(props) ==
  LET hits == { i \in DOMAIN props : IsDateKey(props[i]) }
  IN  IF hits = {} THEN Undefined ELSE props[Min(hits)].name

FindCheckboxProp(props) ==
  LET hits == { i \in DOMAIN props : IsCheckboxKey(props[i]) }
  IN  IF hits = {} THEN Undefined ELSE props[Min(hits)].name

FindTitleProp(props) ==
  LET hits == { i \in DOMAIN props : IsTitleKey(props[i]) }
  IN  IF hits = {} THEN Undefined ELSE props[Min(hits)].name

----------------------------------------------------------------------------
(* Filters (simpleNotionTaskFilter.js).  A JavaScript object is a function *)
(* from its keys.                                                          *)

\* {}
EmptyObject == [k \in {} |-> 0]

\* obj.key = value
SetKey(obj, key, value) ==
  [k \in (DOMAIN obj) \cup {key} |-> IF k = key THEN value ELSE obj[k]]

\* The empty string '' among the date arguments (dates are day ordinals >= 1)
EmptyString == 0

\* if (startDate): the empty string is falsy, a date string is truthy
TruthyStr(d) == d # EmptyString

\* getIncompleteTasks: { property, checkbox: { equals: false } }
IncompleteFilter(cb) ==
  [property |-> cb, checkbox |-> [equals |-> FALSE]]

\* Mutant of UpcomingFilter: the two bounds are exchanged
UpcomingFilterExchanged(dp, today, futureDateStr) ==
  [and |-> << [property |-> dp, date |-> [on_or_after |-> futureDateStr]],
              [property |-> dp, date |-> [on_or_before |-> today]] >>]

\* getUpcomingTasks: and of on_or_after(todayStr), on_or_before(futureDateStr)
UpcomingFilter(dp, today, futureDateStr) ==
  [and |-> << [property |-> dp, date |-> [on_or_after |-> today]],
              [property |-> dp, date |-> [on_or_before |-> futureDateStr]] >>]

\* Mutant of OverdueFilter: the checkbox leaf is put before the date leaf
OverdueFilterSwapped(dp, cb, today) ==
  LET dateLeaf == [property |-> dp, date |-> [before |-> today]]
  IN  [and |-> IF Truthy(cb)
                 THEN << [property |-> cb, checkbox |-> [equals |-> FALSE]],
                         dateLeaf >>
                 ELSE << dateLeaf >>]

\* Mutant of OverdueFilter: the checkbox leaf is pushed without the if
OverdueFilterAlwaysPush(dp, cb, today) ==
  [and |-> << [property |-> dp, date |-> [before |-> today]],
              [property |-> cb, checkbox |-> [equals |-> FALSE]] >>]

\* getOverdueTasks: conditions = [date before]; push checkbox leaf; and: conditions
OverdueFilter(dp, cb, today) ==
  LET conditions == << [property |-> dp, date |-> [before |-> today]] >>
      pushed == IF Truthy(cb)
                  THEN Append(conditions,
                              [property |-> cb, checkbox |-> [equals |-> FALSE]])
                  ELSE conditions
  IN  [and |-> pushed]

\* Mutant of DateRangeFilter: both bounds are set without the ifs
DateRangeFilterNoGuard(dp, startDate, endDate) ==
  [property |-> dp,
   date |-> [on_or_after |-> startDate, on_or_before |-> endDate]]

\* searchByDateRange: one leaf, date: {} plus the supplied bounds
DateRangeFilter(dp, startDate, endDate) ==
  LET d0 == EmptyObject
      d1 == IF TruthyStr(startDate) THEN SetKey(d0, "on_or_after", startDate) ELSE d0
      d2 == IF TruthyStr(endDate) THEN SetKey(d1, "on_or_before", endDate) ELSE d1
  IN  [property |-> dp, date |-> d2]

----------------------------------------------------------------------------
(* Numbers and dates *)

NaN == [nan |-> TRUE, v |-> 0]
Num(n) == [nan |-> FALSE, v |-> n]

\* process.argv[3] of the upcoming command ('' when absent)
DaysArgv == { << >>, << "a", "b", "c" >>, << "0" >>, << "7" >> }

Digits == << "0", "1", "2", "3", "4", "5", "6", "7", "8", "9" >>
IsDigit(c) == \E i \in DOMAIN Digits : Digits[i] = c
DigitVal(c) == (CHOOSE i \in DOMAIN Digits : Digits[i] = c) - 1

\* The value of the longest prefix of decimal digits
RECURSIVE DigitsValue(_, _)
DigitsValue(s, acc) ==
  IF s = << >> \/ ~IsDigit(Head(s))
    THEN acc
    ELSE DigitsValue(Tail(s), acc * 10 + DigitVal(Head(s)))

\* String.prototype.trimStart, trimEnd and trim, for the blank ' '
RECURSIVE TrimStart(_)
TrimStart(s) ==
  IF s # << >> /\ Head(s) = " " THEN TrimStart(Tail(s)) ELSE s

RECURSIVE TrimEnd(_)
TrimEnd(s) ==
  IF s # << >> /\ s[Len(s)] = " "
    THEN TrimEnd(SubSeq(s, 1, Len(s) - 1))
    ELSE s

Trim(s) == TrimEnd(TrimStart(s))

\* parseInt(s): leading blanks and a sign are skipped, the longest prefix of
\* digits is the value, and there is no value (NaN) without a digit
ParseInt(s) ==
  LET t == TrimStart(s)
      signed == t # << >> /\ Head(t) \in {"-", "+"}
      u == IF signed THEN Tail(t) ELSE t
  IN  IF u = << >> \/ ~IsDigit(Head(u))
        THEN NaN
        ELSE Num((IF signed /\ Head(t) = "-" THEN -1 ELSE 1) * DigitsValue(u, 0))

\* const days = process.argv[3] ? parseInt(process.argv[3]) : 7
DaysOf(argv3) == IF argv3 # << >> THEN ParseInt(argv3) ELSE Num(7)

\* new Date().toISOString().split('T')[0], as a day ordinal
Todays == {20, 21}

\* process.argv[3], process.argv[4] of the daterange command ('' when absent)
RangeArgv == {EmptyString, 15, 25}

----------------------------------------------------------------------------
(* The Database Service *)

NoCall == [op |-> "none"]

\* await notion.get / notion.post / notion.patch: the request is sent
Issue(call, next) ==
  /\ inflight' = call
  /\ pc' = next

\* The id a call is addressed with when NOTION_DATABASE_ID is not set
NoDatabaseId == "undefined"

\* NOTION_DATABASE_ID as the scripts put it in a request
EnvDatabaseId == IF environment.db THEN "env-database-id" ELSE NoDatabaseId

\* The check is left out: the id is taken as configured
DatabaseIdMissingNever == FALSE

\* !NOTION_DATABASE_ID
DatabaseIdMissing == ~environment.db

\* The page ids the service may give a new page
PageIds == {"page-a", "page-b"}

\* The service answers the call in flight: it resolves or rejects.  A request
\* for the database "undefined", or one sent without the key, is rejected.
ServiceRespond ==
  /\ inflight # NoCall
  /\ \E ok \in BOOLEAN, n \in 0..MaxPages, id \in PageIds \cup {""} :
       /\ ok => environment.key
       /\ ok => ("db" \in DOMAIN inflight => inflight.db # NoDatabaseId)
       /\ n # 0 => (ok /\ inflight.op \in {"Query", "Search"})
       /\ (ok /\ inflight.op = "CreateRecord") <=> id # ""
       /\ lastOk' = ok
       /\ lastCount' = n
       /\ lastId' = id
       /\ log' = Append(log, [call |-> inflight, ok |-> ok])
       /\ failures' = IF ok THEN failures ELSE failures \cup {"service"}
  /\ inflight' = NoCall
  /\ UNCHANGED << env, rl, pc, locals, outcome >>

\* No rejection is ever seen: the workflow goes on after a failed call
RejectedNever == FALSE

\* The awaited call rejected: control is in the catch block
Rejected == ~lastOk

\* The workflow goes on without waiting for the answer
ResumedEarly(at) == pc = at

\* The workflow resumes after an await
Resumed(at) == pc = at /\ inflight = NoCall

\* Every end prints the completion message
FinishSuccess(how) ==
  /\ outcome' = "success"
  /\ pc' = "done"
  /\ inflight' = NoCall

\* The workflow ends
Finish(how) ==
  /\ outcome' = how
  /\ pc' = "done"
  /\ inflight' = NoCall

----------------------------------------------------------------------------
(* simpleNotionTaskFilter.js: main and the four queries *)

NoArgs == [command |-> "none"]

\* main: no command given (usage), or a command main does not know
FilterUsage ==
  /\ script = "filter" /\ pc = "start"
  /\ \E c \in {"none", "bogus"} :
       /\ args' = [command |-> c]
       /\ Finish(IF c = "none" THEN "usage" ELSE "invalid")
  /\ UNCHANGED << env, rl, dbProps, dateProp, checkboxProp, titleProperty, todayStr,
                  log, resp, failures >>

\* main calls one of the four queries; each starts with getDatabaseProperties()
FilterCommand ==
  /\ script = "filter" /\ pc = "start"
  /\ \/ args' = [command |-> "incomplete"]
     \/ \E a \in DaysArgv : args' = [command |-> "upcoming", days |-> DaysOf(a)]
     \/ args' = [command |-> "overdue"]
     \/ \E a, b \in RangeArgv :
          args' = [command |-> "daterange", startDate |-> a, endDate |-> b]
  /\ Issue([op |-> "GetSchema", db |-> EnvDatabaseId], "filter_schema")
  /\ UNCHANGED << env, rl, dbProps, dateProp, checkboxProp, titleProperty, todayStr,
                  log, resp, outcome, failures >>

\* getDatabaseProperties rejected: handleError, rethrown up to main's catch
FilterSchemaFailed ==
  /\ script = "filter" /\ Resumed("filter_schema") /\ Rejected
  /\ Finish("error")
  /\ UNCHANGED << env, rl, locals, log, resp, failures >>

\* Mutant of DatePropMissing: the check is left out
DatePropMissingNever(dp) == FALSE

\* if (!dateProp)
DatePropMissing(dp) == ~Truthy(dp)

\* if (!checkboxProp)
CheckboxPropMissing(cb) == ~Truthy(cb)

\* futureDate.setDate(today.getDate() + days), then toISOString().split('T')[0]
AddDays(day, n) == day + n

\* throw new Error(<property not found>), rethrown up to main's catch
ThrowNotFound ==
  /\ failures' = failures \cup {"notfound"}
  /\ Finish("error")

\* getIncompleteTasks after the schema arrived
GetIncompleteTasks ==
  /\ script = "filter" /\ Resumed("filter_schema") /\ ~Rejected
  /\ args.command = "incomplete"
  /\ dbProps' = remoteSchema
  /\ checkboxProp' = FindCheckboxProp(dbProps')
  /\ IF CheckboxPropMissing(checkboxProp')
       THEN ThrowNotFound
       ELSE /\ Issue([op |-> "Query", db |-> EnvDatabaseId,
                   filter |-> IncompleteFilter(checkboxProp')],
                     "filter_query")
            /\ UNCHANGED << outcome, failures >>
  /\ UNCHANGED << env, rl, dateProp, titleProperty, todayStr, args, log, resp >>

\* getUpcomingTasks after the schema arrived
GetUpcomingTasks ==
  /\ script = "filter" /\ Resumed("filter_schema") /\ ~Rejected
  /\ args.command = "upcoming"
  /\ dbProps' = remoteSchema
  /\ dateProp' = FindDateProp(dbProps')
  /\ IF DatePropMissing(dateProp')
       THEN ThrowNotFound /\ UNCHANGED todayStr
       ELSE /\ todayStr' \in Todays
            /\ IF args.days.nan
                 \* futureDate is an Invalid Date: toISOString throws a RangeError
                 THEN /\ failures' = failures \cup {"range"}
                      /\ Finish("error")
                 ELSE /\ Issue([op |-> "Query", db |-> EnvDatabaseId,
                                filter |-> UpcomingFilter(dateProp', todayStr',
                                             AddDays(todayStr', args.days.v))],
                               "filter_query")
                      /\ UNCHANGED << outcome, failures >>
  /\ UNCHANGED << env, rl, checkboxProp, titleProperty, args, log, resp >>

\* getOverdueTasks after the schema arrived
GetOverdueTasks ==
  /\ script = "filter" /\ Resumed("filter_schema") /\ ~Rejected
  /\ args.command = "overdue"
  /\ dbProps' = remoteSchema
  /\ dateProp' = FindDateProp(dbProps')
  /\ checkboxProp' = FindCheckboxProp(dbProps')
  /\ IF DatePropMissing(dateProp')
       THEN ThrowNotFound /\ UNCHANGED todayStr
       ELSE /\ todayStr' \in Todays
            /\ Issue([op |-> "Query", db |-> EnvDatabaseId,
                      filter |-> OverdueFilter(dateProp', checkboxProp',
                                               todayStr')],
                     "filter_query")
            /\ UNCHANGED << outcome, failures >>
  /\ UNCHANGED << env, rl, titleProperty, args, log, resp >>

\* searchByDateRange after the schema arrived
SearchByDateRange ==
  /\ script = "filter" /\ Resumed("filter_schema") /\ ~Rejected
  /\ args.command = "daterange"
  /\ dbProps' = remoteSchema
  /\ dateProp' = FindDateProp(dbProps')
  /\ IF DatePropMissing(dateProp')
       THEN ThrowNotFound
       ELSE /\ Issue([op |-> "Query", db |-> EnvDatabaseId,
                      filter |-> DateRangeFilter(dateProp', args.startDate,
                                                 args.endDate)],
                     "filter_query")
            /\ UNCHANGED << outcome, failures >>
  /\ UNCHANGED << env, rl, checkboxProp, titleProperty, todayStr, args, log, resp >>

\* After queryDatabase(filter): formatResults, displayResults, exportToCsv
FilterAfterQuery ==
  /\ script = "filter" /\ Resumed("filter_query")
  /\ IF Rejected
       THEN /\ Finish("error")
            /\ UNCHANGED failures
       ELSE IF lastCount > 0
         \* exportToCsv: fs.writeFileSync may throw, into main's catch
         THEN \E fileOk \in BOOLEAN :
                IF fileOk
                  THEN Finish("success") /\ UNCHANGED failures
                  ELSE /\ failures' = failures \cup {"file"}
                       /\ Finish("error")
         ELSE Finish("success") /\ UNCHANGED failures
  /\ UNCHANGED << env, rl, locals, log, resp >>

----------------------------------------------------------------------------
(* index.js: the page-creation script *)

\* The column of props named n
ColumnOf(props, n) == props[CHOOSE i \in DOMAIN props : props[i].name = n]

\* { title: [{ text: { content } }] }
TitlePayload(content) == [title |-> << [text |-> [content |-> content]] >>]

\* Whether the forEach of main sets a value for the property
PageCreateSets(col) ==
  \/ col.type = "select" /\ Len(col.options) > 0
  \/ col.type \in {"date", "rich_text", "checkbox", "number"}

\* The value the forEach of main sets for the property
PageCreateValue(col, today) ==
  CASE col.type = "select" -> [select |-> [name |-> col.options[1]]]
    [] col.type = "date" -> [date |-> [start |-> today]]
    [] col.type = "rich_text" ->
         [rich_text |-> << [text |-> [content |-> "generated content"]] >>]
    [] col.type = "checkbox" -> [checkbox |-> TRUE]
    [] col.type = "number" -> [number |-> 100]

\* newPageProperties: the title, then the other properties main sets
NewPageProperties(props, titleProp, today) ==
  LET others == { props[i].name : i \in { j \in DOMAIN props :
                     props[j].name # titleProp /\ PageCreateSets(props[j]) } }
  IN  [n \in others \cup {titleProp} |->
         IF n = titleProp
           THEN TitlePayload("auto page")
           ELSE PageCreateValue(ColumnOf(props, n), today)]

\* pageProperties starts empty instead of as a copy
BatchPagePropertiesTitleOnly(properties, titleProp, i) ==
  IF Truthy(titleProp)
    THEN SetKey(EmptyObject, titleProp, TitlePayload(<< "batch page #", i >>))
    ELSE EmptyObject

\* pageProperties of the batch loop: a copy with the title replaced
BatchPageProperties(properties, titleProp, i) ==
  IF Truthy(titleProp)
    THEN SetKey(properties, titleProp, TitlePayload(<< "batch page #", i >>))
    ELSE properties

\* for (let i = 1; i <= 3; i++)
BatchPages == 3

\* main: the check of NOTION_DATABASE_ID, then getDatabase
PageCreateStart ==
  /\ script = "create" /\ pc = "start"
  /\ IF DatabaseIdMissing
       THEN Finish("config_error")
       ELSE Issue([op |-> "GetSchema", db |-> EnvDatabaseId], "create_schema")
            /\ UNCHANGED outcome
  /\ UNCHANGED << env, rl, locals, log, resp, failures >>

\* main after getDatabase: the title property, newPageProperties, createPage
PageCreateAfterSchema ==
  /\ script = "create" /\ Resumed("create_schema")
  /\ IF Rejected
       THEN Finish("error") /\ UNCHANGED << locals, failures >>
       ELSE /\ dbProps' = remoteSchema
            /\ titleProperty' = FindTitleProp(dbProps')
            /\ IF ~Truthy(titleProperty')
                 THEN /\ failures' = failures \cup {"notfound"}
                      /\ Finish("no_title")
                      /\ UNCHANGED << todayStr, args >>
                 ELSE /\ todayStr' \in Todays
                      /\ args' = [properties |->
                           NewPageProperties(dbProps', titleProperty', todayStr')]
                      /\ Issue([op |-> "CreateRecord", db |-> EnvDatabaseId,
                                properties |-> args'.properties,
                                children |-> "pageContent"], "create_page")
                      /\ UNCHANGED << outcome, failures >>
            /\ UNCHANGED << dateProp, checkboxProp >>
  /\ UNCHANGED << env, rl, log, resp >>

\* main after createPage: appendBlocksToPage(newPage.id, additionalBlocks)
PageCreateAfterCreate ==
  /\ script = "create" /\ Resumed("create_page")
  /\ IF Rejected
       THEN Finish("error") /\ UNCHANGED args
       ELSE /\ Issue([op |-> "AppendContent", page |-> lastId,
                      children |-> "additionalBlocks"], "create_append")
            /\ args' = [properties |-> args.properties, i |-> 0]
            /\ UNCHANGED outcome
  /\ UNCHANGED << env, rl, dbProps, dateProp, checkboxProp, titleProperty, todayStr,
                  log, resp, failures >>

\* main after appendBlocksToPage and after each createPage of the batch loop
PageCreateBatch ==
  /\ script = "create" /\ Resumed("create_append")
  /\ IF Rejected
       THEN Finish("error") /\ UNCHANGED args
       ELSE IF args.i < BatchPages
         THEN /\ args' = [args EXCEPT !.i = args.i + 1]
              /\ Issue([op |-> "CreateRecord", db |-> EnvDatabaseId,
                        properties |-> BatchPageProperties(args.properties,
                                         titleProperty, args'.i),
                        children |-> << "simpleContent", args'.i >>],
                       "create_append")
              /\ UNCHANGED outcome
         ELSE Finish("success") /\ UNCHANGED args
  /\ UNCHANGED << env, rl, dbProps, dateProp, checkboxProp, titleProperty, todayStr,
                  log, resp, failures >>

----------------------------------------------------------------------------
(* The database bootstrap script: main of part_003 (lines 308-501), which  *)
(* ends with displayDatabaseContents, and the same main of part_000 (lines *)
(* 724-914), which does not.                                               *)

BootScripts == {"bootstrap", "bootstrap0"}

\* Whether the first forEach of main sets a value for the property
BootSets(col, titleProp) ==
  \/ col.type = "select" /\ Len(col.options) > 0
  \/ col.type = "date"
  \/ col.type = "rich_text" /\ col.name # titleProp

\* The value the first forEach of main sets for the property
BootValue(col, today) ==
  CASE col.type = "select" -> [select |-> [name |-> col.options[1]]]
    [] col.type = "date" -> [date |-> [start |-> today]]
    [] col.type = "rich_text" ->
         [rich_text |-> << [text |-> [content |-> "sample text"]] >>]

\* if (titleProperty): whether the title goes into newPageProperties
BootHasTitle(titleProp) == Truthy(titleProp)

\* newPageProperties of the bootstrap: the title if there is a title property,
\* then the select, date and rich_text properties
BootPageProperties(props, titleProp, today) ==
  LET titled == IF BootHasTitle(titleProp) THEN {titleProp} ELSE {}
      others == { props[i].name : i \in { j \in DOMAIN props :
                     BootSets(props[j], titleProp) } }
  IN  [n \in titled \cup others |->
         IF n \in others
           THEN BootValue(ColumnOf(props, n), today)
           ELSE TitlePayload("sample page")]

\* updateProperties: every select property with a second option
BootUpdateProperties(props) ==
  LET sel == { props[i].name : i \in { j \in DOMAIN props :
                  props[j].type = "select" /\ Len(props[j].options) > 1 } }
  IN  [n \in sel |-> [select |-> [name |-> ColumnOf(props, n).options[2]]]]

\* await saveToFile(...): it rethrows a write error, which ends main in its
\* catch; otherwise main goes on with `then`
SaveToFileThen(then) ==
  \E fileOk \in BOOLEAN :
    IF fileOk
      THEN then
      ELSE /\ failures' = failures \cup {"file"}
           /\ Finish("error")
           /\ UNCHANGED locals

\* The end of main.  In part_003 displayDatabaseContents comes first: it reads
\* database-contents.json and, when that holds a record, exportToCSV writes the
\* CSV file; both catch their error, log it and return.
BootEnd ==
  /\ Finish("success")
  /\ IF script = "bootstrap"
       THEN \E readOk \in BOOLEAN, writeOk \in BOOLEAN :
              /\ ~writeOk => (readOk /\ args.records > 0)
              /\ failures' = IF readOk /\ writeOk THEN failures
                             ELSE failures \cup {"file"}
       ELSE UNCHANGED failures

\* main: listDatabases
BootStart ==
  /\ script \in BootScripts /\ pc = "start"
  /\ Issue([op |-> "Search"], "boot_search")
  /\ UNCHANGED << env, rl, locals, log, resp, outcome, failures >>

\* main after listDatabases: the target database, getDatabase
BootAfterSearch ==
  /\ script \in BootScripts /\ Resumed("boot_search")
  /\ IF Rejected
       THEN Finish("error") /\ UNCHANGED << locals, failures >>
       ELSE SaveToFileThen(
              IF lastCount = 0
                THEN Finish("no_database") /\ UNCHANGED << locals, failures >>
                ELSE /\ args' = [target |-> IF environment.db THEN EnvDatabaseId
                                            ELSE "first-found-id"]
                     /\ Issue([op |-> "GetSchema", db |-> args'.target],
                              "boot_schema")
                     /\ UNCHANGED << dbProps, dateProp, checkboxProp,
                                     titleProperty, todayStr, outcome, failures >>)
  /\ UNCHANGED << env, rl, log, resp >>

\* main after getDatabase: queryDatabase without a filter
BootAfterSchema ==
  /\ script \in BootScripts /\ Resumed("boot_schema")
  /\ IF Rejected
       THEN Finish("error") /\ UNCHANGED << locals, failures >>
       ELSE SaveToFileThen(
              /\ dbProps' = remoteSchema
              /\ Issue([op |-> "Query", db |-> args.target], "boot_query")
              /\ UNCHANGED << dateProp, checkboxProp, titleProperty, todayStr,
                              args, outcome, failures >>)
  /\ UNCHANGED << env, rl, log, resp >>

\* The sample page is created whatever the query returned
BootDatabaseEmptyAlways == TRUE

\* dbContents.results.length === 0
BootDatabaseEmpty == lastCount = 0

\* main after queryDatabase: an empty database gets a sample page, otherwise
\* the first page is fetched
BootAfterQuery ==
  /\ script \in BootScripts /\ Resumed("boot_query")
  /\ IF Rejected
       THEN Finish("error") /\ UNCHANGED << locals, failures >>
       ELSE SaveToFileThen(
              IF BootDatabaseEmpty
                THEN /\ titleProperty' = FindTitleProp(dbProps)
                     /\ todayStr' \in Todays
                     /\ args' = [target |-> args.target, records |-> lastCount]
                     /\ Issue([op |-> "CreateRecord", db |-> args.target,
                               properties |-> BootPageProperties(dbProps,
                                                titleProperty', todayStr')],
                              "boot_create")
                     /\ UNCHANGED << dbProps, dateProp, checkboxProp, outcome,
                                     failures >>
                ELSE /\ args' = [target |-> args.target, records |-> lastCount]
                     /\ Issue([op |-> "GetPage", page |-> "first-page-id"],
                              "boot_getpage")
                     /\ UNCHANGED << dbProps, dateProp, checkboxProp,
                                     titleProperty, todayStr, outcome, failures >>)
  /\ UNCHANGED << env, rl, log, resp >>

\* main after createPage: appendBlocksToPage(newPage.id, blocks)
BootAfterCreate ==
  /\ script \in BootScripts /\ Resumed("boot_create")
  /\ IF Rejected
       THEN Finish("error") /\ UNCHANGED << locals, failures >>
       ELSE SaveToFileThen(
              /\ args' = [target |-> args.target, records |-> args.records,
                          newPage |-> lastId]
              /\ Issue([op |-> "AppendContent", page |-> lastId,
                        children |-> "blocks"], "boot_append")
              /\ UNCHANGED << dbProps, dateProp, checkboxProp, titleProperty,
                              todayStr, outcome, failures >>)
  /\ UNCHANGED << env, rl, log, resp >>

\* main after appendBlocksToPage: updatePage if there is something to update
BootAfterAppend ==
  /\ script \in BootScripts /\ Resumed("boot_append")
  /\ IF Rejected
       THEN Finish("error") /\ UNCHANGED << locals, failures >>
       ELSE SaveToFileThen(
              IF DOMAIN BootUpdateProperties(dbProps) # {}
                THEN /\ Issue([op |-> "UpdateRecord", page |-> args.newPage,
                               properties |-> BootUpdateProperties(dbProps)],
                              "boot_last")
                     /\ UNCHANGED << locals, outcome, failures >>
                ELSE BootEnd /\ UNCHANGED locals)
  /\ UNCHANGED << env, rl, log, resp >>

\* main after getPage: getPageBlocks(firstPage.id)
BootAfterGetPage ==
  /\ script \in BootScripts /\ Resumed("boot_getpage")
  /\ IF Rejected
       THEN Finish("error") /\ UNCHANGED << locals, failures >>
       ELSE SaveToFileThen(
              /\ Issue([op |-> "GetBlocks", page |-> "first-page-id"],
                       "boot_last")
              /\ UNCHANGED << locals, outcome, failures >>)
  /\ UNCHANGED << env, rl, log, resp >>

\* main after updatePage or getPageBlocks: the last saveToFile, then the end
BootAfterLast ==
  /\ script \in BootScripts /\ Resumed("boot_last")
  /\ IF Rejected
       THEN Finish("error") /\ UNCHANGED << locals, failures >>
       ELSE SaveToFileThen(BootEnd /\ UNCHANGED locals)
  /\ UNCHANGED << env, rl, log, resp >>

----------------------------------------------------------------------------
(* The simple filter script: main of part_003 (lines 92-139) with its       *)
(* queryDatabase and exportToCSV (lines 30-89)                              *)

\* 'due date', the property name the script has in its text
NDueDate == << "d", "u", "e", " ", "d", "a", "t", "e" >>

\* await exportToCSV(data, filename): nothing is written for an empty result;
\* a write error is not caught there and ends main in its catch
ExportToCSVThen(then) ==
  \E fileOk \in BOOLEAN :
    IF fileOk \/ lastCount = 0
      THEN then
      ELSE /\ failures' = failures \cup {"file"}
           /\ Finish("error")
           /\ UNCHANGED locals

\* main: notion.get of the database
ExportStart ==
  /\ script = "export" /\ pc = "start"
  /\ Issue([op |-> "GetSchema", db |-> EnvDatabaseId], "export_schema")
  /\ UNCHANGED << env, rl, locals, log, resp, outcome, failures >>

\* main after the database arrived: queryDatabase() for all tasks
ExportAfterSchema ==
  /\ script = "export" /\ Resumed("export_schema")
  /\ IF Rejected
       THEN Finish("error") /\ UNCHANGED dbProps
       ELSE /\ dbProps' = remoteSchema
            /\ Issue([op |-> "Query", db |-> EnvDatabaseId], "export_all")
            /\ UNCHANGED outcome
  /\ UNCHANGED << env, rl, dateProp, checkboxProp, titleProperty, todayStr, args,
                  log, resp, failures >>

\* main after all tasks arrived: all-tasks.json, all-tasks.csv, the sorted query
ExportAfterAll ==
  /\ script = "export" /\ Resumed("export_all")
  /\ IF Rejected
       THEN Finish("error") /\ UNCHANGED << locals, failures >>
       ELSE SaveToFileThen(ExportToCSVThen(
              /\ Issue([op |-> "Query", db |-> EnvDatabaseId,
                        sorts |-> << [property |-> NDueDate,
                                      direction |-> "ascending"] >>],
                       "export_sorted")
              /\ UNCHANGED << locals, outcome, failures >>))
  /\ UNCHANGED << env, rl, log, resp >>

\* main after the sorted tasks arrived: tasks-sorted.csv, the upcoming query
ExportAfterSorted ==
  /\ script = "export" /\ Resumed("export_sorted")
  /\ IF Rejected
       THEN Finish("error") /\ UNCHANGED << locals, failures >>
       ELSE ExportToCSVThen(
              /\ todayStr' \in Todays
              /\ Issue([op |-> "Query", db |-> EnvDatabaseId,
                        filter |-> [property |-> NDueDate,
                                    date |-> [on_or_after |-> todayStr']]],
                       "export_upcoming")
              /\ UNCHANGED << dbProps, dateProp, checkboxProp, titleProperty,
                              args, outcome, failures >>)
  /\ UNCHANGED << env, rl, log, resp >>

\* main after the upcoming tasks arrived: upcoming-tasks.csv, the end
ExportAfterUpcoming ==
  /\ script = "export" /\ Resumed("export_upcoming")
  /\ IF Rejected
       THEN Finish("error") /\ UNCHANGED << locals, failures >>
       ELSE ExportToCSVThen(
              Finish("success") /\ UNCHANGED << locals, failures >>)
  /\ UNCHANGED << env, rl, log, resp >>

----------------------------------------------------------------------------
(* The task counters: countTasks (part_002) and                            *)
(* countTasksAndSaveToExcelAndCsv with saveDataToCsv (part_000, 42-129)    *)

CountScripts == {"count", "countsave"}

\* countTasks / countTasksAndSaveToExcelAndCsv: queryDatabase()
CountStart ==
  /\ script \in CountScripts /\ pc = "start"
  /\ Issue([op |-> "Query", db |-> EnvDatabaseId], "count_query")
  /\ UNCHANGED << env, rl, locals, log, resp, outcome, failures >>

\* After queryDatabase: the counts are printed.  countsave then writes
\* records.xlsx (an error goes to the catch of the function) and calls
\* saveDataToCsv, which catches its own error (Object.keys(data[0]) of an empty
\* list, or the write), logs it and returns.
CountAfterQuery ==
  /\ script \in CountScripts /\ Resumed("count_query")
  /\ IF Rejected
       THEN Finish("error") /\ UNCHANGED failures
       ELSE IF script = "count"
         THEN Finish("ended") /\ UNCHANGED failures
         ELSE \E xlsxOk \in BOOLEAN, csvOk \in BOOLEAN :
                IF ~xlsxOk
                  THEN /\ failures' = failures \cup {"file"}
                       /\ Finish("error")
                  ELSE /\ failures' = IF csvOk /\ lastCount > 0 THEN failures
                                      ELSE failures \cup {"csv"}
                       /\ Finish("ended")
  /\ UNCHANGED << env, rl, locals, log, resp >>

----------------------------------------------------------------------------
(* The interactive tool (part_001): main, the menu and the four handlers   *)

\* Answers typed at the prompts
AYes == << "Y", "e", "s" >>
Ay == << "y" >>
ANo == << "n", "o" >>
Confirms == {AYes, Ay, ANo}
Answers == { << " " >>, AYes, << "5" >>, << "a", "b", "c" >> }
IndexAnswers == { << "a" >>, << "0" >>, << "2" >>, << "3" >>, << "1", "x" >> }
MenuChoices == {"0", "1", "2", "3", "4", "9"}

KwYes == << "y", "e", "s" >>
KwY == << "y" >>
KwTrue == << "t", "r", "u", "e" >>
KwHai == << "U306F", "U3044" >>

\* Every answer counts as a confirmation
IsYesAlways(answer) == TRUE

\* answer.toLowerCase() === 'yes' || answer.toLowerCase() === 'y'
IsYes(answer) == ToLowerCase(answer) = KwYes \/ ToLowerCase(answer) = KwY

\* The answer is compared as typed
CheckboxOfCaseSensitive(value) ==
  value = KwTrue \/ value = KwYes \/ value = KwHai

\* The checkbox value of an answer
CheckboxOf(value) ==
  \/ ToLowerCase(value) = KwTrue
  \/ ToLowerCase(value) = KwYes
  \/ ToLowerCase(value) = KwHai

\* Zero stands for an answer that is not a number
ParseFloatOrZero(value) ==
  IF ParseInt(value).nan THEN Num(0) ELSE ParseInt(value)

\* parseFloat(value), for answers without a decimal point or an exponent
ParseFloat(value) == ParseInt(value)

\* The kinds handleCreatePage asks a value for, and the cases of the switch of
\* handleUpdatePage
CreateKinds == {"rich_text", "number", "date", "select", "checkbox"}
UpdateKinds == CreateKinds \cup {"title"}

\* The default case of the switch does not return
UpdateSupportedAlways(propType) == TRUE

\* The switch of handleUpdatePage has a case for the type
UpdateSupported(propType) == propType \in UpdateKinds

\* The switch on the property type, in handleCreatePage and handleUpdatePage
CliPayload(type, value) ==
  CASE type = "title" -> TitlePayload(value)
    [] type = "rich_text" -> [rich_text |-> << [text |-> [content |-> value]] >>]
    [] type = "number" -> [number |-> ParseFloat(value)]
    [] type = "date" -> [date |-> [start |-> value]]
    [] type = "select" -> [select |-> [name |-> value]]
    [] type = "checkbox" -> [checkbox |-> CheckboxOf(value)]

\* properties of handleCreatePage: the title, then every other property of a
\* kind in CreateKinds whose answer is not blank
CreatePageProperties(props, titleProp, title, vals) ==
  LET asked == { i \in DOMAIN props : /\ props[i].name # titleProp
                                      /\ props[i].type \in CreateKinds
                                      /\ Trim(vals[i]) # << >> }
  IN  [n \in { props[i].name : i \in asked } \cup {titleProp} |->
         IF n = titleProp
           THEN TitlePayload(title)
           ELSE LET i == CHOOSE j \in asked : props[j].name = n
                IN  CliPayload(props[i].type, vals[i])]

\* The paragraph block made of an answer
Paragraph(content) == << [type |-> "paragraph", content |-> content] >>

\* pages[i].id of the listed pages
ListedPageId(i) == << "listed-page", i >>

\* isNaN(index) || index < 0 || index >= length, for index = parseInt(..) - 1
InvalidIndex(answer, length) ==
  LET n == ParseInt(answer)
  IN  n.nan \/ n.v - 1 < 0 \/ n.v - 1 >= length

\* The end of a handler ends main
HandlerReturnEnds(how) ==
  /\ outcome' = how
  /\ pc' = "done"
  /\ inflight' = NoCall

\* A handler returns to the loop of main
HandlerReturn(how) ==
  /\ outcome' = how
  /\ pc' = "menu"
  /\ inflight' = NoCall

\* main: the check of the environment
CliMain ==
  /\ script = "cli" /\ pc = "start"
  /\ IF ~environment.key \/ DatabaseIdMissing
       THEN rl' = "closed" /\ Finish("config_error")
       ELSE /\ pc' = "menu"
            /\ UNCHANGED << rl, inflight, outcome >>
  /\ UNCHANGED << env, locals, log, resp, failures >>

\* main: showMainMenu and the switch on the choice.  A handler starts with
\* its own locals; the history of the previous handler is dropped here.
CliMenu ==
  /\ script = "cli" /\ pc = "menu"
  /\ \E choice \in MenuChoices :
       /\ args' = [command |-> choice]
       /\ CASE choice = "0" -> rl' = "closed" /\ Finish("exit")
            [] choice \in {"1", "3", "4"} ->
                 /\ Issue([op |-> "Query", db |-> EnvDatabaseId], "cli_list")
                 /\ outcome' = "running"
                 /\ UNCHANGED rl
            [] choice = "2" ->
                 /\ Issue([op |-> "GetSchema", db |-> EnvDatabaseId],
                          "cli_create_schema")
                 /\ outcome' = "running"
                 /\ UNCHANGED rl
            [] OTHER -> HandlerReturn("invalid") /\ UNCHANGED rl
  /\ dbProps' = << >>
  /\ titleProperty' = Undefined
  /\ log' = << >>
  /\ failures' = {}
  /\ UNCHANGED << env, dateProp, checkboxProp, todayStr, resp >>

\* showPageList after listPages.  Its catch logs the error and returns null,
\* and handleUpdatePage and handleDeletePage return on null.
CliAfterList ==
  /\ script = "cli" /\ Resumed("cli_list")
  /\ IF Rejected
       THEN HandlerReturn("error") /\ UNCHANGED args
       ELSE IF lastCount = 0
         THEN HandlerReturn("no_pages") /\ UNCHANGED args
         ELSE /\ args' = [command |-> args.command, pages |-> lastCount]
              /\ Issue([op |-> "GetSchema", db |-> EnvDatabaseId],
                       "cli_list_schema")
              /\ UNCHANGED outcome
  /\ UNCHANGED << env, rl, dbProps, dateProp, checkboxProp, titleProperty,
                  todayStr, log, resp, failures >>

\* showPageList after getDatabaseProperties: the list is printed.  Then
\* handleUpdatePage asks for the page and fetches the properties again, and
\* handleDeletePage asks for the page and for the confirmation.
CliAfterListSchema ==
  /\ script = "cli" /\ Resumed("cli_list_schema")
  /\ IF Rejected
       THEN HandlerReturn("error") /\ UNCHANGED << dbProps, titleProperty, args >>
       ELSE
         /\ dbProps' = remoteSchema
         /\ titleProperty' = FindTitleProp(dbProps')
         /\ IF args.command = "1"
              THEN HandlerReturn("listed") /\ UNCHANGED args
              ELSE \E answer \in IndexAnswers :
                IF InvalidIndex(answer, args.pages)
                  THEN /\ HandlerReturn("invalid_choice")
                       /\ args' = SetKey(args, "pageNumber", answer)
                  ELSE
                    LET selectedPage == ListedPageId(ParseInt(answer).v - 1)
                        selected == SetKey(SetKey(args, "pageNumber", answer),
                                           "selectedPage", selectedPage)
                    IN  IF args.command = "3"
                          THEN /\ args' = selected
                               /\ Issue([op |-> "GetSchema",
                                         db |-> EnvDatabaseId],
                                        "cli_update_schema")
                               /\ UNCHANGED outcome
                          ELSE \E confirm \in Confirms :
                                 /\ args' = SetKey(selected, "confirm", confirm)
                                 /\ IF IsYes(confirm)
                                      THEN /\ Issue([op |-> "ArchiveRecord",
                                                     page |-> selectedPage,
                                                     archived |-> TRUE],
                                                    "cli_delete")
                                           /\ UNCHANGED outcome
                                      ELSE HandlerReturn("cancelled")
  /\ UNCHANGED << env, rl, dateProp, checkboxProp, todayStr, log, resp,
                  failures >>

\* handleDeletePage after deletePage
CliAfterDelete ==
  /\ script = "cli" /\ Resumed("cli_delete")
  /\ HandlerReturn(IF Rejected THEN "error" ELSE "success")
  /\ UNCHANGED << env, rl, locals, log, resp, failures >>

\* handleUpdatePage after its own getDatabaseProperties: the property and
\* the new value are asked, and updatePage is called
CliUpdateAfterSchema ==
  /\ script = "cli" /\ Resumed("cli_update_schema")
  /\ IF Rejected
       THEN HandlerReturn("error") /\ UNCHANGED << dbProps, args >>
       ELSE
         /\ dbProps' = remoteSchema
         /\ \E answer \in IndexAnswers, newValue \in Answers :
              IF InvalidIndex(answer, Len(dbProps'))
                THEN /\ HandlerReturn("invalid_choice")
                     /\ args' = SetKey(args, "propNumber", answer)
                ELSE LET propIndex == ParseInt(answer).v - 1
                         propKey == dbProps'[propIndex + 1].name
                         propType == dbProps'[propIndex + 1].type
                     IN  IF propType \notin UpdateKinds
                           THEN /\ HandlerReturn("unsupported")
                                /\ args' = SetKey(args, "propNumber", answer)
                           ELSE
                             /\ args' = SetKey(
                                  SetKey(args, "propNumber", answer),
                                  "properties",
                                  SetKey(EmptyObject, propKey,
                                         CliPayload(propType, newValue)))
                             /\ Issue([op |-> "UpdateRecord",
                                       page |-> args.selectedPage,
                                       properties |-> args'.properties],
                                      "cli_update")
                             /\ UNCHANGED outcome
  /\ UNCHANGED << env, rl, dateProp, checkboxProp, titleProperty, todayStr,
                  log, resp, failures >>

\* handleUpdatePage after updatePage: the question about new content
CliAfterUpdate ==
  /\ script = "cli" /\ Resumed("cli_update")
  /\ IF Rejected
       THEN HandlerReturn("error")
       ELSE \E addBlocks \in Confirms :
              IF IsYes(addBlocks)
                THEN /\ Issue([op |-> "AppendContent",
                               page |-> args.selectedPage,
                               children |-> Paragraph("content")],
                              "cli_append")
                     /\ UNCHANGED outcome
                ELSE HandlerReturn("success")
  /\ UNCHANGED << env, rl, locals, log, resp, failures >>

\* handleUpdatePage after addBlocksToPage
CliAfterAppend ==
  /\ script = "cli" /\ Resumed("cli_append")
  /\ HandlerReturn(IF Rejected THEN "error" ELSE "success")
  /\ UNCHANGED << env, rl, locals, log, resp, failures >>

\* handleCreatePage after getDatabaseProperties: without a title property it
\* returns; else the values are asked and createPage is called
CliCreateAfterSchema ==
  /\ script = "cli" /\ Resumed("cli_create_schema")
  /\ IF Rejected
       THEN /\ HandlerReturn("error")
            /\ UNCHANGED << dbProps, titleProperty, args, failures >>
       ELSE
         /\ dbProps' = remoteSchema
         /\ titleProperty' = FindTitleProp(dbProps')
         /\ IF ~Truthy(titleProperty')
              THEN /\ failures' = failures \cup {"notfound"}
                   /\ HandlerReturn("no_title")
                   /\ UNCHANGED args
              ELSE \E vals \in [DOMAIN dbProps' -> Answers],
                      addContent \in Confirms :
                     LET properties ==
                           CreatePageProperties(dbProps', titleProperty',
                                                << "T" >>, vals)
                         blocks == IF IsYes(addContent)
                                     THEN Paragraph("content") ELSE << >>
                         requestBody == [op |-> "CreateRecord",
                                         db |-> EnvDatabaseId,
                                         properties |-> properties]
                     IN  /\ args' = [command |-> args.command,
                                     properties |-> properties]
                         /\ Issue(IF Len(blocks) > 0
                                    THEN [c \in DOMAIN requestBody
                                            \cup {"children"} |->
                                          IF c = "children" THEN blocks
                                          ELSE requestBody[c]]
                                    ELSE requestBody, "cli_create")
                         /\ UNCHANGED << outcome, failures >>
  /\ UNCHANGED << env, rl, dateProp, checkboxProp, todayStr, log, resp >>

\* handleCreatePage after createPage
CliAfterCreate ==
  /\ script = "cli" /\ Resumed("cli_create")
  /\ HandlerReturn(IF Rejected THEN "error" ELSE "success")
  /\ UNCHANGED << env, rl, locals, log, resp, failures >>

----------------------------------------------------------------------------
(* Property values of a record and their projection in the export paths   *)

\* Bound on the text runs of a title or rich_text value and on the options
\* of a multi_select value
MaxRuns == 2

Null == [null |-> TRUE]
NoValue == [type |-> "none"]
NoProjection == [path |-> "none"]

\* Plain texts of a run, names of options, start dates
Texts == { << >>, << "A" >>, << "B", "c" >> }
OptionNames == { << "L", "o", "w" >>, << "H", "i" >> }
DateStrings == { << "2", "0", "2", "5", "-", "0", "4", "-", "2", "0" >> }
PageNumbers == { 0, 5, -3 }

Run(text) == [plain_text |-> text]
Runs == UNION { [1..n -> { Run(t) : t \in Texts }] : n \in 0..MaxRuns }
OptionLists ==
  UNION { [1..n -> { [name |-> o] : o \in OptionNames }] : n \in 0..MaxRuns }

\* The values of a property in a page object, by type
TypedValues ==
  { [type |-> "title", title |-> r] : r \in Runs }
    \cup { [type |-> "rich_text", rich_text |-> r] : r \in Runs }
    \cup { [type |-> "date", date |-> d] :
             d \in {Null} \cup { [start |-> t] : t \in DateStrings } }
    \cup { [type |-> "select", select |-> o] :
             o \in {Null} \cup { [name |-> n] : n \in OptionNames } }
    \cup { [type |-> "status", status |-> o] :
             o \in {Null} \cup { [name |-> n] : n \in OptionNames } }
    \cup { [type |-> "multi_select", multi_select |-> l] : l \in OptionLists }
    \cup { [type |-> "checkbox", checkbox |-> b] : b \in BOOLEAN }
    \cup { [type |-> "number", number |-> n] :
             n \in {Null, NaN} \cup { Num(k) : k \in PageNumbers } }
    \cup { [type |-> "people", people |-> << >>],
           [type |-> "url", url |-> Null] }

\* Number.prototype.toString of an integer, and of NaN
RECURSIVE NatToString(_)
NatToString(n) ==
  IF n < 10 THEN << Digits[n + 1] >>
  ELSE NatToString(n \div 10) \o << Digits[(n % 10) + 1] >>

NumToString(n) ==
  IF n.nan THEN << "N", "a", "N" >>
  ELSE IF n.v < 0 THEN << "-" >> \o NatToString(-n.v)
  ELSE NatToString(n.v)

\* array.map(item => item.name).join(sep)
RECURSIVE JoinNames(_, _)
JoinNames(list, sep) ==
  IF list = << >> THEN << >>
  ELSE IF Len(list) = 1 THEN list[1].name
  ELSE list[1].name \o sep \o JoinNames(Tail(list), sep)

\* x || fallback, for a string x
OrElse(x, fallback) == IF x = << >> THEN fallback ELSE x

\* runs[0]?.plain_text, undefined being shown as the empty string
FirstPlainText(runs) == IF Len(runs) > 0 THEN runs[1].plain_text ELSE << >>

\* value is declared without its initial value
ExportValueUninitialised(propData) ==
  IF propData.type = "title" /\ Len(propData.title) > 0
    THEN propData.title[1].plain_text
  ELSE IF propData.type = "rich_text" /\ Len(propData.rich_text) > 0
    THEN propData.rich_text[1].plain_text
  ELSE IF propData.type = "date" /\ propData.date # Null
    THEN propData.date.start
  ELSE IF propData.type = "select" /\ propData.select # Null
    THEN propData.select.name
  ELSE << "u", "n", "d", "e", "f", "i", "n", "e", "d" >>

\* exportToCSV of the simple filter script (part_003, lines 63-84): the
\* value of one property
ExportValue(propData) ==
  IF propData.type = "title" /\ Len(propData.title) > 0
    THEN propData.title[1].plain_text
  ELSE IF propData.type = "rich_text" /\ Len(propData.rich_text) > 0
    THEN propData.rich_text[1].plain_text
  ELSE IF propData.type = "date" /\ propData.date # Null
    THEN propData.date.start
  ELSE IF propData.type = "select" /\ propData.select # Null
    THEN propData.select.name
  ELSE << >>

StrTRUE == << "T", "R", "U", "E" >>
StrFALSE == << "F", "A", "L", "S", "E" >>

\* The switch has the four cases of the simple filter script only
ContentsValueFourCases(prop) == ExportValue(prop)

\* exportToCSV of the bootstrap (part_003, lines 597-633) and the same switch
\* in displayDatabaseContents (lines 538-562): the value of one property
ContentsValue(prop) ==
  CASE prop.type = "title" -> OrElse(FirstPlainText(prop.title), << >>)
    [] prop.type = "rich_text" -> OrElse(FirstPlainText(prop.rich_text), << >>)
    [] prop.type = "select" ->
         IF prop.select # Null THEN OrElse(prop.select.name, << >>) ELSE << >>
    [] prop.type = "multi_select" ->
         JoinNames(prop.multi_select, << ";", " " >>)
    [] prop.type = "date" ->
         IF prop.date # Null THEN OrElse(prop.date.start, << >>) ELSE << >>
    [] prop.type = "checkbox" -> IF prop.checkbox THEN StrTRUE ELSE StrFALSE
    [] prop.type = "number" ->
         IF prop.number # Null THEN NumToString(prop.number) ELSE << >>
    [] OTHER -> << >>

\* The placeholders of formatResults and of the task counter
Mudai == << "U7121", "U984C" >>
Fumei == << "U4E0D", "U660E" >>
Nashi == << "U306A", "U3057" >>

\* title.map(t => t.plain_text).join('')
RECURSIVE JoinPlainText(_)
JoinPlainText(runs) ==
  IF runs = << >> THEN << >>
  ELSE runs[1].plain_text \o JoinPlainText(Tail(runs))

\* Only the first run is taken
FormatTitleFirstRun(value) ==
  IF Len(value.title) > 0 THEN value.title[1].plain_text ELSE Mudai

\* formatResults (part_000, lines 422-427): item.title
FormatTitle(value) ==
  IF Len(value.title) > 0 THEN JoinPlainText(value.title) ELSE Mudai

\* countTasksAndSaveToExcelAndCsv (part_000, lines 77-79): recordName, dueDate
\* and status, each with optional chaining and a placeholder
RecordName(value) ==
  IF "title" \in DOMAIN value
    THEN OrElse(FirstPlainText(value.title), Fumei) ELSE Fumei

RecordDueDate(value) ==
  IF "date" \in DOMAIN value /\ value.date # Null
    THEN OrElse(value.date.start, Nashi) ELSE Nashi

\* No placeholder stands for a missing status
RecordStatusNoPlaceholder(value) ==
  IF "status" \in DOMAIN value /\ value.status # Null
    THEN value.status.name ELSE << >>

RecordStatus(value) ==
  IF "status" \in DOMAIN value /\ value.status # Null
    THEN OrElse(value.status.name, Nashi) ELSE Nashi

----------------------------------------------------------------------------
(* The specification *)

Scripts == {"filter", "create", "export"} \cup BootScripts \cup CountScripts
             \cup {"cli"}

Init ==
  /\ script \in Scripts
  /\ environment \in [key : BOOLEAN, db : BOOLEAN]
  /\ pc = "start"
  /\ remoteSchema \in IF script = "filter" THEN Schemas ELSE PageSchemas
  /\ dbProps = << >>
  /\ dateProp = Undefined
  /\ checkboxProp = Undefined
  /\ titleProperty = Undefined
  /\ todayStr = 0
  /\ args = NoArgs
  /\ inflight = NoCall
  /\ log = << >>
  /\ lastOk = TRUE
  /\ lastCount = 0
  /\ lastId = ""
  /\ outcome = "running"
  /\ failures = {}
  /\ rl = IF script = "cli" THEN "open" ELSE "none"
  /\ propValue = NoValue
  /\ projected = NoProjection

Next ==
  \/ ServiceRespond
  \/ FilterUsage
  \/ FilterCommand
  \/ FilterSchemaFailed
  \/ GetIncompleteTasks
  \/ GetUpcomingTasks
  \/ GetOverdueTasks
  \/ SearchByDateRange
  \/ FilterAfterQuery
  \/ PageCreateStart
  \/ PageCreateAfterSchema
  \/ PageCreateAfterCreate
  \/ PageCreateBatch
  \/ BootStart
  \/ BootAfterSearch
  \/ BootAfterSchema
  \/ BootAfterQuery
  \/ BootAfterCreate
  \/ BootAfterAppend
  \/ BootAfterGetPage
  \/ BootAfterLast
  \/ ExportStart
  \/ ExportAfterSchema
  \/ ExportAfterAll
  \/ ExportAfterSorted
  \/ ExportAfterUpcoming
  \/ CountStart
  \/ CountAfterQuery
  \/ CliMain
  \/ CliMenu
  \/ CliAfterList
  \/ CliAfterListSchema
  \/ CliAfterDelete
  \/ CliUpdateAfterSchema
  \/ CliAfterUpdate
  \/ CliAfterAppend
  \/ CliCreateAfterSchema
  \/ CliAfterCreate

Spec == Init /\ [][Next]_vars

----------------------------------------------------------------------------
(* The projection of one property value, in each export path *)

\* What the projection of a value leaves alone
workflow == << script, environment, pc, remoteSchema, locals, inflight, log,
              resp, outcome, failures, rl >>

InitProject ==
  /\ script = "project"
  /\ environment = [key |-> TRUE, db |-> TRUE]
  /\ pc = "start"
  /\ remoteSchema = << >>
  /\ dbProps = << >>
  /\ dateProp = Undefined
  /\ checkboxProp = Undefined
  /\ titleProperty = Undefined
  /\ todayStr = 0
  /\ args = NoArgs
  /\ inflight = NoCall
  /\ log = << >>
  /\ lastOk = TRUE
  /\ lastCount = 0
  /\ lastId = ""
  /\ outcome = "running"
  /\ failures = {}
  /\ rl = "none"
  /\ propValue \in TypedValues
  /\ projected = NoProjection

\* exportToCSV of the simple filter script maps one property of one record
ProjectExportToCSV ==
  /\ script = "project" /\ projected = NoProjection
  /\ projected' = [path |-> "exportToCSV", value |-> ExportValue(propValue)]
  /\ UNCHANGED << workflow, propValue >>

\* exportToCSV of the bootstrap maps one property of one record
ProjectContents ==
  /\ script = "project" /\ projected = NoProjection
  /\ projected' = [path |-> "contents", value |-> ContentsValue(propValue)]
  /\ UNCHANGED << workflow, propValue >>

\* formatResults takes the title, the date and the completion flag of a page
\* from the properties it resolved
ProjectFormatResults ==
  /\ script = "project" /\ projected = NoProjection
  /\ propValue.type \in {"title", "date", "checkbox"}
  /\ projected' =
       CASE propValue.type = "title" ->
              [path |-> "formatResults", field |-> "title",
               value |-> FormatTitle(propValue)]
         [] propValue.type = "date" ->
              IF propValue.date # Null
                THEN [path |-> "formatResults", field |-> "date",
                      value |-> propValue.date.start]
                ELSE [path |-> "formatResults", field |-> "date"]
         [] propValue.type = "checkbox" ->
              [path |-> "formatResults", field |-> "completed",
               flag |-> propValue.checkbox]
  /\ UNCHANGED << workflow, propValue >>

\* The task counter collects the name, the due date and the status of a record
ProjectRecordDetails ==
  /\ script = "project" /\ projected = NoProjection
  /\ \/ projected' = [path |-> "records", field |-> "name",
                      value |-> RecordName(propValue)]
     \/ projected' = [path |-> "records", field |-> "dueDate",
                      value |-> RecordDueDate(propValue)]
     \/ projected' = [path |-> "records", field |-> "status",
                      value |-> RecordStatus(propValue)]
  /\ UNCHANGED << workflow, propValue >>

NextProject ==
  \/ ProjectExportToCSV
  \/ ProjectContents
  \/ ProjectFormatResults
  \/ ProjectRecordDetails

SpecProject == InitProject /\ [][NextProject]_vars

----------------------------------------------------------------------------
(* The payload of one property in handleCreatePage and handleUpdatePage,   *)
(* and the way back through the service and exportToCSV                    *)

\* The kinds of the property asked about
PayloadKinds == Kinds \cup {"people"}

\* The answers typed for its value
RawInputs ==
  { << >>, << " " >>, AYes, KwYes, StrTRUE, KwTrue, KwHai, ANo, StrFALSE,
    << "5" >>, << "0", "5" >>, << "-", "3" >>, << "a", "b", "c" >> }
    \cup DateStrings

\* The database has its title property and, for another kind, one property
\* of that kind
PayloadSchema(kind) ==
  IF kind = "title" THEN << Col(NTask, "title") >>
  ELSE << Col(NTask, "title"), Col(NFlag, kind) >>

\* The property the answer is for
PayloadKey == dbProps[Len(dbProps)].name

InitPayload ==
  /\ script = "payload"
  /\ environment = [key |-> TRUE, db |-> TRUE]
  /\ pc = "start"
  /\ \E kind \in PayloadKinds, raw \in RawInputs :
       /\ remoteSchema = PayloadSchema(kind)
       /\ args = [type |-> kind, value |-> raw]
  /\ dbProps = remoteSchema
  /\ dateProp = Undefined
  /\ checkboxProp = Undefined
  /\ titleProperty = NTask
  /\ todayStr = 0
  /\ inflight = NoCall
  /\ log = << >>
  /\ lastOk = TRUE
  /\ lastCount = 0
  /\ lastId = ""
  /\ outcome = "running"
  /\ failures = {}
  /\ rl = "open"
  /\ propValue = NoValue
  /\ projected = NoProjection

\* handleCreatePage from the title question to createPage: the answer is the
\* title for the title property and the value for another property
PayloadCreate ==
  /\ script = "payload" /\ pc = "start"
  /\ LET properties ==
           IF args.type = "title"
             THEN CreatePageProperties(dbProps, titleProperty, args.value,
                                       << args.value >>)
             ELSE CreatePageProperties(dbProps, titleProperty, << "T" >>,
                                       << args.value, args.value >>)
     IN  Issue([op |-> "CreateRecord", db |-> EnvDatabaseId,
                properties |-> properties], "payload_issued")
  /\ UNCHANGED << env, rl, locals, log, resp, outcome, failures >>

\* properties of handleUpdatePage after the switch
UpdateProperties(propKey, propType, newValue) ==
  IF propType \in UpdateKinds
    THEN SetKey(EmptyObject, propKey, CliPayload(propType, newValue))
    ELSE EmptyObject

\* handleUpdatePage from the switch on the property type to updatePage
PayloadUpdate ==
  /\ script = "payload" /\ pc = "start"
  /\ IF ~UpdateSupported(args.type)
       THEN /\ failures' = failures \cup {"unsupported"}
            /\ Finish("unsupported")
       ELSE /\ Issue([op |-> "UpdateRecord", page |-> ListedPageId(0),
                      properties |-> UpdateProperties(PayloadKey, args.type,
                                                      args.value)],
                     "payload_issued")
            /\ UNCHANGED << outcome, failures >>
  /\ UNCHANGED << env, rl, locals, log, resp >>

\* The request body is JSON: NaN is written as null
JsonNumber(n) == IF n.nan THEN Null ELSE n

\* The property of the page the service returns for a property it was sent:
\* the value as written, with its type
ServiceEcho(type, payload) ==
  CASE type = "title" ->
         [type |-> type,
          title |-> [i \in DOMAIN payload.title |->
                       Run(payload.title[i].text.content)]]
    [] type = "rich_text" ->
         [type |-> type,
          rich_text |-> [i \in DOMAIN payload.rich_text |->
                           Run(payload.rich_text[i].text.content)]]
    [] type = "number" -> [type |-> type, number |-> JsonNumber(payload.number)]
    [] type = "date" -> [type |-> type, date |-> payload.date]
    [] type = "select" -> [type |-> type, select |-> payload.select]
    [] type = "checkbox" -> [type |-> type, checkbox |-> payload.checkbox]

\* The service answers createPage or updatePage with the page
PayloadEcho ==
  /\ script = "payload" /\ pc = "payload_issued"
  /\ log' = Append(log, [call |-> inflight, ok |-> TRUE])
  /\ inflight' = NoCall
  /\ IF PayloadKey \in DOMAIN inflight.properties
       THEN /\ propValue' = ServiceEcho(args.type,
                                        inflight.properties[PayloadKey])
            /\ pc' = "payload_stored"
            /\ UNCHANGED outcome
       ELSE /\ outcome' = "success"
            /\ pc' = "done"
            /\ UNCHANGED propValue
  /\ UNCHANGED << script, environment, remoteSchema, projected, rl, locals,
                  resp, failures >>

\* exportToCSV of the bootstrap maps the property of the returned page
PayloadProject ==
  /\ script = "payload" /\ pc = "payload_stored"
  /\ projected' = [path |-> "contents", value |-> ContentsValue(propValue)]
  /\ outcome' = "success"
  /\ pc' = "done"
  /\ UNCHANGED << script, environment, remoteSchema, propValue, rl, locals,
                  inflight, log, resp, failures >>

NextPayload ==
  \/ PayloadCreate
  \/ PayloadUpdate
  \/ PayloadEcho
  \/ PayloadProject

SpecPayload == InitPayload /\ [][NextPayload]_vars

----------------------------------------------------------------------------
(* The delimited files: exportToCSV of the simple filter script (part_003, *)
(* lines 52-89), exportToCSV of the bootstrap (part_003, lines 582-641),   *)
(* saveDataToCsv of the task counter (part_000, lines 42-60) and           *)
(* exportToCsv of the task filter tool (part_000, lines 468-488)           *)

Comma == ","
DQuote == "\""
LineFeed == "\n"
BOM == "UFEFF"

\* Property names the task counter has in its text, and a name with a comma
NTaskName == << "U30BF", "U30B9", "U30AF", "U540D" >>
NStatus == << "U30B9", "U30C6", "U30FC", "U30BF", "U30B9" >>
NCommaName == << "a", ",", "b" >>

\* Plain texts with and without a comma, a double quote and a line break
CsvTexts ==
  { << "a" >>, << "a", ",", "b" >>, << "h", "\"", "i", "\"" >>,
    << "a", "\"", ",", "b" >>, << "a", "\n", "b" >> }

CsvColumns ==
  { Col(NTaskName, "title"), Col(NDueDate, "date"), Col(NDone, "checkbox"),
    Col(NCommaName, "rich_text"), Col(NStatus, "status") }

\* The values a property of the column can have in a page object
CsvValuesOf(col) ==
  CASE col.type = "title" ->
         { [type |-> "title", title |-> r] :
             r \in {<< >>} \cup { << Run(t) >> : t \in CsvTexts } }
    [] col.type = "rich_text" ->
         { [type |-> "rich_text", rich_text |-> r] :
             r \in { << >>, << Run(<< "a", ",", "b" >>) >>,
                     << Run(<< "\"" >>) >> } }
    [] col.type = "date" ->
         { [type |-> "date", date |-> d] :
             d \in {Null} \cup { [start |-> t] : t \in DateStrings } }
    [] col.type = "checkbox" ->
         { [type |-> "checkbox", checkbox |-> b] : b \in BOOLEAN }
    [] col.type = "status" ->
         { [type |-> "status", status |-> o] :
             o \in { Null, [name |-> << "L", "o", "w" >>] } }

\* The page objects of a database: properties in the order of the schema
CsvRecordsOf(schema) ==
  { [j \in DOMAIN schema |-> [name |-> schema[j].name, value |-> v[j]]] :
      v \in { w \in [DOMAIN schema ->
                       UNION { CsvValuesOf(schema[j]) : j \in DOMAIN schema }] :
                \A j \in DOMAIN schema : w[j] \in CsvValuesOf(schema[j]) } }

\* Array.prototype.join
RECURSIVE JoinText(_, _)
JoinText(list, sep) ==
  IF list = << >> THEN << >>
  ELSE IF Len(list) = 1 THEN list[1]
  ELSE list[1] \o sep \o JoinText(Tail(list), sep)

\* value.replace(/"/g, '""')
RECURSIVE DoubleQuotes(_)
DoubleQuotes(value) ==
  IF value = << >> THEN << >>
  ELSE (IF Head(value) = DQuote THEN << DQuote, DQuote >> ELSE << Head(value) >>)
         \o DoubleQuotes(Tail(value))

\* `"${value}"`
InQuotes(value) == << DQuote >> \o value \o << DQuote >>

\* Object.keys(record.properties)
KeysOf(record) == [j \in DOMAIN record |-> record[j].name]

\* record.properties[name], and an object without fields for a missing name
PropertyOf(record, name) ==
  IF \E j \in DOMAIN record : record[j].name = name
    THEN record[CHOOSE j \in DOMAIN record : record[j].name = name].value
    ELSE NoValue

\* values.join(',') + '\n' for every row
RECURSIVE LinesOf(_)
LinesOf(rows) ==
  IF rows = << >> THEN << >>
  ELSE JoinText(rows[1], << Comma >>) \o << LineFeed >> \o LinesOf(Tail(rows))

NotWritten(path) == [path |-> path, written |-> FALSE]

\* The marker is put after the text
WithBOMAtEnd(csv) == csv \o << BOM >>

\* '\uFEFF' + csv
WithBOM(csv) == << BOM >> \o csv

\* exportToCSV of the simple filter script: a value with a comma is put in
\* double quotes
ExportToCSVField(value) ==
  IF Includes(value, << Comma >>) THEN InQuotes(value) ELSE value

\* exportToCSV of the simple filter script: the file it writes
ExportToCSVOut(results) ==
  IF Len(results) = 0 THEN NotWritten("exportToCSV")
  ELSE
    LET properties == KeysOf(results[1])
        values == [i \in DOMAIN results |-> [j \in DOMAIN properties |->
                     ExportValue(PropertyOf(results[i], properties[j]))]]
        rows == [i \in DOMAIN results |-> [j \in DOMAIN properties |->
                   ExportToCSVField(values[i][j])]]
    IN  [path |-> "exportToCSV", written |-> TRUE,
         header |-> properties, values |-> values, rows |-> rows,
         file |-> WithBOM(JoinText(properties, << Comma >>)
                            \o << LineFeed >> \o LinesOf(rows))]

\* exportToCSV of the bootstrap: every value is put in double quotes, its
\* double quotes doubled
ContentsField(value) == InQuotes(DoubleQuotes(value))

\* exportToCSV of the bootstrap: the file it writes
ContentsCsvOut(results) ==
  IF Len(results) = 0 THEN NotWritten("contents")
  ELSE
    LET propertyNames == KeysOf(results[1])
        values == [i \in DOMAIN results |-> [j \in DOMAIN propertyNames |->
                     ContentsValue(PropertyOf(results[i], propertyNames[j]))]]
        rows == [i \in DOMAIN results |-> [j \in DOMAIN propertyNames |->
                   ContentsField(values[i][j])]]
    IN  [path |-> "contents", written |-> TRUE,
         header |-> propertyNames, values |-> values, rows |-> rows,
         file |-> JoinText(propertyNames, << Comma >>) \o << LineFeed >>
                    \o LinesOf(rows)]

\* The keys of a record of the task counter
NNamae == << "U540D", "U524D" >>
RecordKeys == << NNamae, NKigen, NStatus >>

\* allRecords of countTasksAndSaveToExcelAndCsv
AllRecords(results) ==
  [i \in DOMAIN results |->
     << RecordName(PropertyOf(results[i], NTaskName)),
        RecordDueDate(PropertyOf(results[i], NDueDate)),
        RecordStatus(PropertyOf(results[i], NStatus)) >>]

\* saveDataToCsv: a string with a comma is put in double quotes
SaveDataField(value) ==
  IF Includes(value, << Comma >>) THEN InQuotes(value) ELSE value

\* saveDataToCsv: the file it writes; without a record Object.keys(data[0])
\* throws, and the catch logs the error
SaveDataToCsvOut(data) ==
  IF Len(data) = 0 THEN NotWritten("records")
  ELSE
    LET rows == [i \in DOMAIN data |-> [j \in DOMAIN data[i] |->
                   SaveDataField(data[i][j])]]
    IN  [path |-> "records", written |-> TRUE,
         header |-> RecordKeys, values |-> data, rows |-> rows,
         file |-> JoinText(RecordKeys, << Comma >>) \o << LineFeed >>
                    \o JoinText([i \in DOMAIN rows |->
                                   JoinText(rows[i], << Comma >>)],
                                << LineFeed >>)]

\* An absent field of a task, and a present one
Absent == [defined |-> FALSE]
Present(v) == [defined |-> TRUE, v |-> v]

\* page.url
PageUrl(i) == << "u", Digits[i + 1] >>

\* formatResults: the task made of a page
FormatResults(results, props) ==
  LET titleProp == FindTitleProp(props)
      dp == FindDateProp(props)
      cb == FindCheckboxProp(props)
  IN  [i \in DOMAIN results |->
         [url |-> PageUrl(i),
          title |-> IF Truthy(titleProp)
                      THEN FormatTitle(PropertyOf(results[i], titleProp))
                      ELSE Mudai,
          date |-> IF Truthy(dp) /\ PropertyOf(results[i], dp).date # Null
                     THEN Present(PropertyOf(results[i], dp).date.start)
                     ELSE Absent,
          completed |-> IF Truthy(cb)
                          THEN Present(PropertyOf(results[i], cb).checkbox)
                          ELSE Absent]]

\* The header has no name for the URL
TaskHeadersWithoutUrl ==
  << << "U30BF", "U30A4", "U30C8", "U30EB" >>, NKigen, NKanryo >>

\* headers of exportToCsv
TaskHeaders ==
  << << "U30BF", "U30A4", "U30C8", "U30EB" >>, NKigen, NKanryo,
     << "U", "R", "L" >> >>

\* The no of exportToCsv; its yes is KwHai
Iie == << "U3044", "U3044", "U3048" >>

\* The checkbox is written as TRUE and FALSE
CompletedFieldTrueFalse(task) ==
  IF task.completed.defined
    THEN InQuotes(IF task.completed.v THEN StrTRUE ELSE StrFALSE)
    ELSE << >>

\* exportToCsv: task.completed !== undefined ? `"${...}"` : ''
CompletedField(task) ==
  IF task.completed.defined
    THEN InQuotes(IF task.completed.v THEN KwHai ELSE Iie)
    ELSE << >>

\* exportToCsv: the four values of a task
TaskFields(task) ==
  << InQuotes(DoubleQuotes(task.title)),
     IF task.date.defined THEN InQuotes(task.date.v) ELSE << >>,
     CompletedField(task),
     InQuotes(task.url) >>

\* exportToCsv: the file it writes; main calls it when there is a result
ExportToCsvOut(results) ==
  IF Len(results) = 0 THEN NotWritten("tasks")
  ELSE
    LET rows == [i \in DOMAIN results |-> TaskFields(results[i])]
    IN  [path |-> "tasks", written |-> TRUE,
         header |-> TaskHeaders, tasks |-> results, rows |-> rows,
         file |-> JoinText(<< JoinText(TaskHeaders, << Comma >>) >>
                             \o [i \in DOMAIN rows |->
                                   JoinText(rows[i], << Comma >>)],
                           << LineFeed >>)]

\* The files are written from the records of a database
InitCsv ==
  /\ script = "csv"
  /\ environment = [key |-> TRUE, db |-> TRUE]
  /\ pc = "start"
  /\ remoteSchema \in SchemasOf(CsvColumns) \ { << >> }
  /\ dbProps = remoteSchema
  /\ dateProp = Undefined
  /\ checkboxProp = Undefined
  /\ titleProperty = Undefined
  /\ todayStr = 0
  /\ args = NoArgs
  /\ inflight = NoCall
  /\ log = << >>
  /\ lastOk = TRUE
  /\ lastCount = 0
  /\ lastId = ""
  /\ outcome = "running"
  /\ failures = {}
  /\ rl = "none"
  /\ \E record \in CsvRecordsOf(remoteSchema), n \in 0..MaxPages :
       propValue = [results |-> [i \in 1..n |-> record]]
  /\ projected = NoProjection

\* The simple filter script exports the answer to a query
CsvExportToCSV ==
  /\ script = "csv" /\ projected = NoProjection
  /\ projected' = ExportToCSVOut(propValue.results)
  /\ UNCHANGED << workflow, propValue >>

\* The bootstrap exports the contents of the database
CsvContents ==
  /\ script = "csv" /\ projected = NoProjection
  /\ projected' = ContentsCsvOut(propValue.results)
  /\ UNCHANGED << workflow, propValue >>

\* The task counter saves its records
CsvSaveData ==
  /\ script = "csv" /\ projected = NoProjection
  /\ projected' = SaveDataToCsvOut(AllRecords(propValue.results))
  /\ UNCHANGED << workflow, propValue >>

\* The task filter tool exports its formatted results
CsvExportToCsv ==
  /\ script = "csv" /\ projected = NoProjection
  /\ projected' = ExportToCsvOut(FormatResults(propValue.results, dbProps))
  /\ UNCHANGED << workflow, propValue >>

NextCsv ==
  \/ CsvExportToCSV
  \/ CsvContents
  \/ CsvSaveData
  \/ CsvExportToCsv

SpecCsv == InitCsv /\ [][NextCsv]_vars


----------------------------------------------------------------------------
(* Vocabulary of the claims *)

\* s contains kw, comparing characters without regard to case
ContainsIgnoringCase(s, kw) ==
  \E off \in 0..(Len(s) - Len(kw)) :
    \A k \in 1..Len(kw) : LowerChar(s[off + k]) = LowerChar(kw[k])

DeadlineKeywords == { KwKigen, KwDue, KwDate, KwDeadline }
DoneKeywords == { KwKanryo, KwDone, KwComplete }

\* A column that plays the due-date role / the completion-flag role
QualifiesDueDate(col) ==
  col.type = "date" /\ \E kw \in DeadlineKeywords : ContainsIgnoringCase(col.name, kw)

QualifiesCompletion(col) ==
  col.type = "checkbox" /\ \E kw \in DoneKeywords : ContainsIgnoringCase(col.name, kw)

\* The running workflow is one command of the filter tool, past its resolution step
FilterResolved(cmds) ==
  /\ script = "filter"
  /\ args.command \in cmds
  /\ pc \in {"filter_query", "done"}
  /\ Len(log) >= 1 /\ log[1].call.op = "GetSchema" /\ log[1].ok

\* name is the name of the first column of props, in order, that Q accepts
IsFirstMatch(name, props, Q(_)) ==
  \E i \in DOMAIN props :
    /\ Q(props[i])
    /\ props[i].name = name
    /\ \A j \in 1..(i - 1) : ~Q(props[j])

\* Every Query call issued so far (answered or in flight) has a filter that P accepts
EveryQueryFilter(P(_)) ==
  /\ \A i \in DOMAIN log : log[i].call.op = "Query" => P(log[i].call.filter)
  /\ inflight.op = "Query" => P(inflight.filter)

\* No Query call was issued so far
NoQueryIssued ==
  /\ \A i \in DOMAIN log : log[i].call.op # "Query"
  /\ inflight.op # "Query"

\* A Query call was issued
SomeQueryIssued == ~NoQueryIssued

----------------------------------------------------------------------------
(* C1..C8: property resolution and filters of the task filter tool *)

\* C1: in the upcoming, overdue and date-range workflows the resolved due-date
\* column is the first column, in schema order, of kind date whose name contains
\* a deadline keyword without regard to case; a later qualifying column is
\* ignored, and nothing is resolved when no column qualifies.
C1_DueDateFirstMatch ==
  FilterResolved({"upcoming", "overdue", "daterange"}) =>
    IF \E i \in DOMAIN dbProps : QualifiesDueDate(dbProps[i])
      THEN IsFirstMatch(dateProp, dbProps, QualifiesDueDate)
      ELSE dateProp = Undefined

\* Two Date columns qualify, one of them by an upper-case name, and the first won
C1_Witness ==
  /\ FilterResolved({"upcoming", "overdue", "daterange"})
  /\ Len(dbProps) = 2
  /\ QualifiesDueDate(dbProps[1]) /\ QualifiesDueDate(dbProps[2])
  /\ dbProps[1].name = NDEADLINE
  /\ dateProp = dbProps[1].name
  /\ SomeQueryIssued

\* C2: in the upcoming, overdue and date-range workflows, when no column of the
\* fetched schema qualifies as the due-date column the workflow ends in error
\* with the property-not-found failure and no Query call is issued.
C2_NoDueDateNoQuery ==
  ( /\ FilterResolved({"upcoming", "overdue", "daterange"})
    /\ \A i \in DOMAIN dbProps : ~QualifiesDueDate(dbProps[i]) )
  => /\ pc = "done" /\ outcome = "error"
     /\ "notfound" \in failures
     /\ NoQueryIssued
     /\ Len(log) = 1

\* The schema has a Date column, but its name holds no deadline keyword
C2_Witness ==
  /\ FilterResolved({"upcoming", "overdue", "daterange"})
  /\ \A i \in DOMAIN dbProps : ~QualifiesDueDate(dbProps[i])
  /\ \E i \in DOMAIN dbProps : dbProps[i].type = "date"
  /\ \E i \in DOMAIN dbProps : dbProps[i].type = "rich_text" /\ dbProps[i].name = NDue
  /\ outcome = "error"

\* C4: in the incomplete and overdue workflows the resolved completion column is
\* the first column, in schema order, of kind checkbox whose name contains a
\* done/complete keyword without regard to case; no other column is returned.
C4_CompletionFirstMatch ==
  FilterResolved({"incomplete", "overdue"}) =>
    IF \E i \in DOMAIN dbProps : QualifiesCompletion(dbProps[i])
      THEN IsFirstMatch(checkboxProp, dbProps, QualifiesCompletion)
      ELSE checkboxProp = Undefined

\* A non-Checkbox column named with a keyword comes first and is passed over
C4_Witness ==
  /\ FilterResolved({"incomplete", "overdue"})
  /\ Len(dbProps) = 2
  /\ dbProps[1].name = NDone /\ dbProps[1].type = "select"
  /\ dbProps[2] = Col(NCOMPLETE, "checkbox")
  /\ checkboxProp = NCOMPLETE
  /\ SomeQueryIssued

\* f is { property: prop, date: { op: value } }
IsDateLeaf(f, prop, op, value) ==
  /\ DOMAIN f = {"property", "date"}
  /\ f.property = prop
  /\ DOMAIN f.date = {op}
  /\ f.date[op] = value

\* f is { property: prop, checkbox: { equals: value } }
IsCheckboxLeaf(f, prop, value) ==
  /\ DOMAIN f = {"property", "checkbox"}
  /\ f.property = prop
  /\ DOMAIN f.checkbox = {"equals"}
  /\ f.checkbox.equals = value

\* f is { and: [n children] }
IsAnd(f, n) == DOMAIN f = {"and"} /\ Len(f.and) = n

\* C5: when a completion column is resolved, the overdue filter sent to Query is
\* an AND of exactly two leaves, in this order: date before today on the due-date
\* column, then checkbox equals false on the completion column.
C5_OverdueTwoLeaves ==
  ( /\ FilterResolved({"overdue"})
    /\ dateProp # Undefined /\ checkboxProp # Undefined )
  => /\ SomeQueryIssued
     /\ EveryQueryFilter(LAMBDA f :
          /\ IsAnd(f, 2)
          /\ IsDateLeaf(f.and[1], dateProp, "before", todayStr)
          /\ IsCheckboxLeaf(f.and[2], checkboxProp, FALSE))

\* The overdue Query was answered when both columns were resolved
C5_Witness ==
  /\ FilterResolved({"overdue"})
  /\ dateProp # Undefined /\ checkboxProp # Undefined
  /\ Len(log) = 2 /\ log[2].call.op = "Query" /\ log[2].ok

\* C6 as stated: when no completion column is resolved, the overdue filter sent
\* to Query is the bare date-before leaf, not a composite.
C6_OverdueBareLeaf ==
  ( /\ FilterResolved({"overdue"})
    /\ dateProp # Undefined /\ checkboxProp = Undefined )
  => EveryQueryFilter(LAMBDA f : IsDateLeaf(f, dateProp, "before", todayStr))

\* C6 as amended: when no completion column is resolved, the overdue filter sent
\* to Query is an AND composite with exactly one child, the date-before(today)
\* leaf on the due-date column.
C6_OverdueSingleChildAnd ==
  ( /\ FilterResolved({"overdue"})
    /\ dateProp # Undefined /\ checkboxProp = Undefined )
  => /\ SomeQueryIssued
     /\ EveryQueryFilter(LAMBDA f :
          /\ IsAnd(f, 1)
          /\ IsDateLeaf(f.and[1], dateProp, "before", todayStr))

\* The overdue Query was answered when the only Checkbox column has no keyword
C6_Witness ==
  /\ FilterResolved({"overdue"})
  /\ dateProp # Undefined /\ checkboxProp = Undefined
  /\ \E i \in DOMAIN dbProps : dbProps[i] = Col(NFlag, "checkbox")
  /\ Len(log) = 2 /\ log[2].call.op = "Query" /\ log[2].ok

\* C7: the due-within filter is an AND of exactly two date leaves on the resolved
\* due-date column, in this order: on_or_after today, then on_or_before the
\* horizon date (today plus the number of days).
C7_UpcomingTwoBounds ==
  ( /\ FilterResolved({"upcoming"})
    /\ dateProp # Undefined /\ ~args.days.nan )
  => /\ SomeQueryIssued
     /\ EveryQueryFilter(LAMBDA f :
          /\ IsAnd(f, 2)
          /\ IsDateLeaf(f.and[1], dateProp, "on_or_after", todayStr)
          /\ IsDateLeaf(f.and[2], dateProp, "on_or_before",
                        todayStr + args.days.v))

\* The upcoming Query for the default seven days was answered
C7_Witness ==
  /\ FilterResolved({"upcoming"})
  /\ args.days = Num(7)
  /\ Len(log) = 2 /\ log[2].call.op = "Query" /\ log[2].ok
  /\ log[2].call.filter.and[2].date.on_or_before = todayStr + 7

\* A date argument was supplied (it is not the empty string)
Supplied(d) == d # EmptyString

\* C8: the date-range filter is a single date leaf on the resolved column, which
\* carries on_or_after exactly when a start is supplied and on_or_before exactly
\* when an end is supplied, each with the supplied value; with neither supplied
\* the leaf carries no bound.
C8_DateRangeBounds ==
  ( FilterResolved({"daterange"}) /\ dateProp # Undefined )
  => /\ SomeQueryIssued
     /\ EveryQueryFilter(LAMBDA f :
          /\ DOMAIN f = {"property", "date"}
          /\ f.property = dateProp
          /\ DOMAIN f.date \subseteq {"on_or_after", "on_or_before"}
          /\ "on_or_after" \in DOMAIN f.date <=> Supplied(args.startDate)
          /\ "on_or_before" \in DOMAIN f.date <=> Supplied(args.endDate)
          /\ Supplied(args.startDate) => f.date.on_or_after = args.startDate
          /\ Supplied(args.endDate) => f.date.on_or_before = args.endDate)

\* The date-range Query went out with neither bound supplied: date is {}
C8_Witness ==
  /\ FilterResolved({"daterange"})
  /\ ~Supplied(args.startDate) /\ ~Supplied(args.endDate)
  /\ Len(log) = 2 /\ log[2].call.op = "Query" /\ log[2].ok
  /\ DOMAIN log[2].call.filter.date = {}

----------------------------------------------------------------------------
(* C3, C9, C10: missing title column and failure propagation *)

\* The workflows that create a record
CreatingScripts == {"create", "cli"} \cup BootScripts

\* The workflow holds a fetched schema without a column of kind title
FetchedSchemaWithoutTitle ==
  /\ \E i \in DOMAIN log : log[i].call.op = "GetSchema" /\ log[i].ok
  /\ dbProps = remoteSchema
  /\ \A i \in DOMAIN dbProps : dbProps[i].type # "title"

NoCreateIssued ==
  /\ \A i \in DOMAIN log : log[i].call.op # "CreateRecord"
  /\ inflight.op # "CreateRecord"

\* C3: in every workflow that creates a record, when the fetched schema has no
\* column of kind title, no CreateRecord call is issued.
C3_NoTitleNoCreate ==
  (script \in CreatingScripts /\ FetchedSchemaWithoutTitle) => NoCreateIssued

\* C9: in every workflow, a failed Database Service call is the last call the
\* workflow issues: nothing is in flight after it and no call follows it.
C9_FailedCallIsLast ==
  \A i \in DOMAIN log :
    ~log[i].ok => (i = Len(log) /\ inflight = NoCall)

\* The page-creation script after its createPage failed: it has ended with two
\* calls issued, and the append and the three batch pages were skipped
C9_Witness ==
  /\ script = "create" /\ pc = "done"
  /\ Len(log) = 2
  /\ log[1].call.op = "GetSchema" /\ log[1].ok
  /\ log[2].call.op = "CreateRecord" /\ ~log[2].ok
  /\ outcome = "error"

\* C10 as stated: no workflow reports successful completion after one of its
\* steps has failed.
C10_NoSuccessAfterFailure ==
  outcome = "success" => failures = {}

\* C10, amended: no workflow reports successful completion after one of its
\* Database Service calls has failed; a failed file step whose error is caught
\* where it occurs can be followed by the completion message.
C10_NoSuccessAfterServiceFailure ==
  outcome = "success" =>
    /\ \A i \in DOMAIN log : log[i].ok
    /\ "service" \notin failures

\* The bootstrap reported completion after all of its calls succeeded, though
\* displayDatabaseContents failed on its file
C10_Witness ==
  /\ script = "bootstrap" /\ outcome = "success"
  /\ "file" \in failures
  /\ Len(log) >= 3
  /\ \A i \in DOMAIN log : log[i].ok

----------------------------------------------------------------------------
(* C11..C13: configuration, the schema snapshot, calls in flight *)

\* No Database Service call was attempted
NoCallAttempted == log = << >> /\ inflight = NoCall

\* C11 as stated: when the database id is not configured, a workflow attempts
\* no Database Service call at all and ends on a configuration error.
C11_NoDatabaseIdNoCall ==
  ~environment.db =>
    /\ NoCallAttempted
    /\ pc = "done" => outcome = "config_error"

\* The scripts whose main checks NOTION_DATABASE_ID before its first call
CheckingScripts == {"create", "cli"}

\* C11, amended: in the page-creation script and in the interactive tool, when
\* the database id is not configured the workflow attempts no Database Service
\* call at all and ends on a configuration error.
C11_CheckedIdNoCall ==
  (script \in CheckingScripts /\ ~environment.db) =>
    /\ NoCallAttempted
    /\ pc \in {"start", "done"}
    /\ pc = "done" => outcome = "config_error"

\* The page-creation script ended on the missing id, the key being set
C11_Witness ==
  /\ script = "create" /\ environment.key /\ ~environment.db
  /\ pc = "done" /\ outcome = "config_error"
  /\ NoCallAttempted

\* The GetSchema calls the workflow has issued so far
SchemaFetches ==
  Cardinality({ i \in DOMAIN log : log[i].call.op = "GetSchema" })
    + (IF inflight.op = "GetSchema" THEN 1 ELSE 0)

\* C12: within one workflow the schema is fetched (GetSchema) at most once.
C12_SchemaFetchedOnce == SchemaFetches <= 1

\* C13: a Database Service call is issued only when no call is in flight, so
\* that at most one call is in flight at every moment.
C13_OneCallInFlight ==
  [][(inflight' # NoCall /\ inflight' # inflight) => inflight = NoCall]_vars

\* The page-creation script with its last batch page in flight, after the
\* five calls before it were answered one by one
C13_Witness ==
  /\ script = "create"
  /\ inflight.op = "CreateRecord"
  /\ Len(log) = 5
  /\ \A i \in DOMAIN log : log[i].ok

----------------------------------------------------------------------------
(* C14..C16: projection of a property value (SpecProject) *)

\* The kinds each exportToCSV has a rule for
ExportKinds == {"title", "rich_text", "date", "select"}
ContentsKinds == ExportKinds \cup {"multi_select", "checkbox", "number"}

\* The text runs of a title or rich_text value
RunsOf(value) ==
  IF value.type = "title" THEN value.title ELSE value.rich_text

\* The selected option of a select or status value
SelectedOf(value) ==
  IF value.type = "select" THEN value.select ELSE value.status

C15_FirstRunOnly ==
  ( /\ propValue.type \in {"title", "rich_text"}
    /\ projected.path \in {"exportToCSV", "contents", "formatResults"} )
  => IF Len(RunsOf(propValue)) > 0
       THEN projected.value = RunsOf(propValue)[1].plain_text
       ELSE projected.value \in { << >>, Mudai }

\* C15, amended: both exportToCSV functions project a title or text value to
\* the plain content of its first run, and to the empty string without a run;
\* formatResults projects a title to the contents of all its runs joined, and
\* to its placeholder without a run; the task counter projects a title to the
\* content of its first run, and to its placeholder when that is missing or
\* empty.
C15_RunsPerPath ==
  /\ ( /\ propValue.type \in {"title", "rich_text"}
       /\ projected.path \in {"exportToCSV", "contents"} )
     => projected.value = FirstPlainText(RunsOf(propValue))
  /\ (propValue.type = "title" /\ projected.path = "formatResults")
     => projected.value =
          IF propValue.title = << >> THEN Mudai
          ELSE JoinPlainText(propValue.title)
  /\ ( /\ propValue.type = "title" /\ projected.path = "records"
       /\ projected.field = "name" )
     => projected.value =
          IF FirstPlainText(propValue.title) = << >> THEN Fumei
          ELSE propValue.title[1].plain_text

\* formatResults joined the two runs of a title
C15_Witness ==
  /\ projected.path = "formatResults" /\ propValue.type = "title"
  /\ Len(propValue.title) = 2
  /\ propValue.title[1].plain_text = << "A" >>
  /\ propValue.title[2].plain_text = << "B", "c" >>
  /\ projected.value = << "A", "B", "c" >>

\* C16 as stated: in every export path a select or status value is projected
\* to the name of the selected option, and to the empty string when no option
\* is selected.
C16_SelectedName ==
  ( /\ propValue.type \in {"select", "status"}
    /\ \/ projected.path \in {"exportToCSV", "contents"}
       \/ /\ projected.path = "records" /\ projected.field = "status"
          /\ propValue.type = "status" )
  => projected.value =
       IF SelectedOf(propValue) # Null THEN SelectedOf(propValue).name
       ELSE << >>

\* C16, amended: both exportToCSV functions project a select value to the
\* name of the selected option, and to the empty string when none is selected,
\* and project a status value to the empty string always; the task counter
\* projects a status value to the name of the selected option, and to its
\* placeholder when none is selected.
C16_SelectAndStatusPerPath ==
  /\ ( /\ propValue.type = "select"
       /\ projected.path \in {"exportToCSV", "contents"} )
     => projected.value =
          IF propValue.select # Null THEN propValue.select.name ELSE << >>
  /\ ( /\ propValue.type = "status"
       /\ projected.path \in {"exportToCSV", "contents"} )
     => projected.value = << >>
  /\ ( /\ propValue.type = "status" /\ projected.path = "records"
       /\ projected.field = "status" )
     => projected.value =
          IF propValue.status # Null THEN propValue.status.name ELSE Nashi

\* The task counter put its placeholder for a status without a selected option
C16_Witness ==
  /\ projected.path = "records" /\ projected.field = "status"
  /\ propValue.type = "status" /\ propValue.status = Null
  /\ projected.value = Nashi

----------------------------------------------------------------------------
(* C17..C20: payloads of the interactive tool (SpecPayload) *)

\* The create or update call made for the answer, once it is made
PayloadCall ==
  IF inflight # NoCall THEN inflight
  ELSE IF log # << >> THEN log[1].call
  ELSE NoCall

\* The call carries a payload for the property the answer was for
PayloadBuilt ==
  PayloadCall # NoCall /\ PayloadKey \in DOMAIN PayloadCall.properties

ThePayload == PayloadCall.properties[PayloadKey]

EqualsIgnoringCase(s, t) ==
  Len(s) = Len(t) /\ \A k \in 1..Len(s) : LowerChar(s[k]) = LowerChar(t[k])

Affirmative(s) ==
  \E t \in { KwTrue, KwYes, KwHai } : EqualsIgnoringCase(s, t)

\* C17: in the create and in the update workflow, the checkbox payload built
\* from an answer is true exactly when the answer, compared without regard to
\* case, is "true", "yes" or the Japanese yes, and false for any other answer.
C17_CheckboxPayload ==
  (args.type = "checkbox" /\ PayloadBuilt) =>
    (ThePayload.checkbox <=> Affirmative(args.value))

\* The update of a checkbox with the answer Yes carries true
C17_Witness ==
  /\ args.type = "checkbox" /\ args.value = AYes
  /\ PayloadCall.op = "UpdateRecord"
  /\ PayloadBuilt /\ ThePayload = [checkbox |-> TRUE]

\* The answers parseFloat finds no number in
UnparsableInputs ==
  RawInputs \ ({ << "5" >>, << "0", "5" >>, << "-", "3" >> } \cup DateStrings)

C19_UnsupportedFails ==
  (args.type \notin UpdateKinds /\ pc # "start") =>
    /\ "unsupported" \in failures
    /\ ~PayloadBuilt

\* C19, amended: for a property of a kind without a payload rule, the update
\* workflow reports the unsupported kind and issues no call; the create
\* workflow asks no value for the property, reports nothing and issues its
\* CreateRecord call without the property.
C19_UnsupportedPerHandler ==
  (args.type \notin UpdateKinds /\ pc # "start") =>
    /\ ~PayloadBuilt
    /\ PayloadCall = NoCall =>
         (outcome = "unsupported" /\ "unsupported" \in failures)
    /\ PayloadCall # NoCall =>
         (PayloadCall.op = "CreateRecord" /\ failures = {})

\* The page was created without its multi_select property and nothing failed
C19_Witness ==
  /\ args.type = "multi_select" /\ pc = "done"
  /\ PayloadCall.op = "CreateRecord"
  /\ DOMAIN PayloadCall.properties = {NTask}
  /\ outcome = "success" /\ failures = {}

\* The kinds the round trip is claimed for
RoundTripKinds == { "number", "checkbox", "title", "rich_text", "date" }

\* Decimal numbers as they are usually written, and as toString writes them
NumberInputs == { << "5" >>, << "0", "5" >>, << "-", "3" >> }
CanonicalNumberInputs == { << "5" >>, << "-", "3" >> }

\* The answers a checkbox prompt is meant for
CheckboxInputs == { AYes, KwYes, StrTRUE, KwTrue, KwHai, ANo, StrFALSE }

WellFormed(kind, s) ==
  CASE kind = "number" -> s \in NumberInputs
    [] kind = "checkbox" -> s \in CheckboxInputs
    [] kind = "date" -> s \in DateStrings
    [] OTHER -> TRUE

\* The payload built from the answer came back and was projected
RoundTripDone ==
  pc = "done" /\ projected # NoProjection /\ args.type \in RoundTripKinds

\* C20 as stated: for a number, checkbox, title, text or date property and a
\* well-formed answer s, the projection of the payload built from s is s.
C20_RoundTrip ==
  (RoundTripDone /\ WellFormed(args.type, args.value)) =>
    projected.value = args.value

\* C20, amended: the projection of the payload built from a well-formed
\* answer s is s for a title, text or date property; for a number it is the
\* canonical decimal of the number, which is s when s is canonical and s
\* without its leading zero otherwise; for a checkbox it is TRUE when s is
\* affirmative and FALSE otherwise, which is s only for TRUE and FALSE.
C20_RoundTripPerKind ==
  (RoundTripDone /\ WellFormed(args.type, args.value)) =>
    CASE args.type = "number" ->
           /\ args.value \in CanonicalNumberInputs =>
                projected.value = args.value
           /\ args.value = << "0", "5" >> => projected.value = << "5" >>
      [] args.type = "checkbox" ->
           /\ projected.value =
                (IF Affirmative(args.value) THEN StrTRUE ELSE StrFALSE)
           /\ projected.value = args.value <=>
                args.value \in { StrTRUE, StrFALSE }
      [] OTHER -> projected.value = args.value

\* The answer -3 for a number came back as -3
C20_Witness ==
  /\ RoundTripDone
  /\ args.type = "number" /\ args.value = << "-", "3" >>
  /\ log[1].call.op = "UpdateRecord"
  /\ projected.value = << "-", "3" >>

----------------------------------------------------------------------------
(* C25, C26: the delete and update workflows of the interactive tool *)

\* The calls of the running workflow, answered or in flight
IssuedCalls ==
  { log[i].call : i \in DOMAIN log } \cup
    (IF inflight = NoCall THEN {} ELSE {inflight})

ReadOps == {"Query", "GetSchema", "Search", "GetPage", "GetBlocks"}

RecordChangingOps == {"UpdateRecord", "ArchiveRecord", "AppendContent"}

\* The answer is yes or y, in any case
ConfirmedYes(answer) ==
  EqualsIgnoringCase(answer, KwYes) \/ EqualsIgnoringCase(answer, KwY)

\* C25: the delete workflow issues, besides its read-only calls, only the
\* ArchiveRecord call that sets archived to true, and it issues that call
\* only after the confirmation prompt was answered yes or y in any case; for
\* any other answer no call that changes the record is issued.
C25_ArchiveOnlyConfirmed ==
  (script = "cli" /\ args.command = "4") =>
    \A call \in IssuedCalls :
      \/ call.op \in ReadOps
      \/ /\ call.op = "ArchiveRecord" /\ call.archived
         /\ "confirm" \in DOMAIN args
         /\ ConfirmedYes(args.confirm)

\* The page was archived after the answer Yes
C25_Witness ==
  /\ script = "cli" /\ args.command = "4"
  /\ "confirm" \in DOMAIN args /\ args.confirm = AYes
  /\ \E i \in DOMAIN log : log[i].call.op = "ArchiveRecord" /\ log[i].ok
  /\ outcome = "success"

\* The answer is written with decimal digits only
IsNumeral(s) ==
  /\ s # << >>
  /\ \A k \in 1..Len(s) :
       s[k] \in {"0", "1", "2", "3", "4", "5", "6", "7", "8", "9"}

\* The entry is not a number or is outside 1..count
BadEntry(s, count) ==
  \/ ~IsNumeral(s)
  \/ ParseInt(s).v < 1
  \/ ParseInt(s).v > count

\* C26: in the update and delete workflows, when the entered page number or
\* the entered property number is not a number or is outside 1..count, no
\* UpdateRecord, ArchiveRecord or AppendContent call is issued.
C26_BadEntryNoChange ==
  ( /\ script = "cli" /\ args.command \in {"3", "4"}
    /\ \/ /\ "pageNumber" \in DOMAIN args
          /\ BadEntry(args.pageNumber, args.pages)
       \/ /\ "propNumber" \in DOMAIN args
          /\ BadEntry(args.propNumber, Len(dbProps)) ) =>
    \A call \in IssuedCalls : call.op \notin RecordChangingOps

----------------------------------------------------------------------------
(* C27: the database bootstrap *)

MutatingOps == {"CreateRecord", "AppendContent", "UpdateRecord", "ArchiveRecord"}

\* The unfiltered Query of the bootstrap was answered with this many records
BootQueryReturned(n) ==
  /\ \E i \in DOMAIN log : log[i].call.op = "Query" /\ log[i].ok
  /\ "records" \in DOMAIN args
  /\ args.records = n

\* C27: the bootstrap issues CreateRecord, AppendContent and UpdateRecord
\* calls only after its unfiltered Query returned zero records; when the
\* Query returned at least one record, every call of the run is read-only.
C27_MutatesOnlyWhenEmpty ==
  script \in BootScripts =>
    /\ (\E call \in IssuedCalls : call.op \in MutatingOps) =>
         BootQueryReturned(0)
    /\ (\E n \in 1..MaxPages : BootQueryReturned(n)) =>
         \A call \in IssuedCalls : call.op \in ReadOps

\* On an empty database the sample page was created, filled and updated
C27_Witness ==
  /\ script \in BootScripts /\ BootQueryReturned(0)
  /\ { "CreateRecord", "AppendContent", "UpdateRecord" } \subseteq
       { log[i].call.op : i \in DOMAIN log }
  /\ outcome = "success"

----------------------------------------------------------------------------
(* C29: the menu loop of the interactive tool *)

\* NOTION_KEY and NOTION_DATABASE_ID are both set
Configured == environment.key /\ environment.db

\* How a handler, or the default case of the menu, can end
HandlerOutcomes ==
  { "listed", "no_pages", "success", "error", "invalid", "invalid_choice",
    "unsupported", "cancelled", "no_title" }

\* C29: with the configuration present, the menu is prompting again after
\* every handler outcome, a failed remote call and an invalid choice
\* included; main ends only after the choice '0'; and whenever main has
\* ended the readline interface is closed.
C29_MenuLoop ==
  script = "cli" =>
    /\ (Configured /\ outcome \in HandlerOutcomes) =>
         (pc = "menu" /\ rl = "open")
    /\ (Configured /\ pc = "done") =>
         (outcome = "exit" /\ args.command = "0")
    /\ pc = "done" => rl = "closed"
    /\ pc # "done" => rl = "open"

\* The menu prompts again after a handler whose remote call failed
C29_Witness ==
  /\ script = "cli" /\ Configured
  /\ pc = "menu" /\ rl = "open" /\ outcome = "error"
  /\ \E i \in DOMAIN log : ~log[i].ok

----------------------------------------------------------------------------
(* C30: the calls of the page-creation script *)

\* The operations of the answered calls, in order
OpsOfLog == [i \in DOMAIN log |-> log[i].call.op]

\* The names of the title columns of the database
TitleNames ==
  { remoteSchema[i].name :
      i \in { j \in DOMAIN remoteSchema : remoteSchema[j].type = "title" } }

\* Two property payloads differ at most in the title
SameExceptTitle(p, q) ==
  /\ DOMAIN p = DOMAIN q
  /\ \A n \in DOMAIN p \ TitleNames : p[n] = q[n]

\* After a run that every call of succeeded: GetSchema, CreateRecord with
\* content, AppendContent, and three more CreateRecord calls with the
\* properties of the first but for the title
C30_Order ==
  (script = "create" /\ pc = "done" /\ outcome = "success") =>
    /\ \A i \in DOMAIN log : log[i].ok
    /\ OpsOfLog = << "GetSchema", "CreateRecord", "AppendContent",
                     "CreateRecord", "CreateRecord", "CreateRecord" >>
    /\ "children" \in DOMAIN log[2].call
    /\ \A k \in 4..6 :
         SameExceptTitle(log[k].call.properties, log[2].call.properties)

\* The AppendContent call is issued right after the answer to the first
\* CreateRecord and is addressed to the id that answer returned
C30_AppendTarget ==
  (script = "create" /\ inflight'.op = "AppendContent" /\ inflight = NoCall) =>
    /\ Len(log) = 2
    /\ log[2].call.op = "CreateRecord" /\ log[2].ok
    /\ lastId \in PageIds
    /\ inflight'.page = lastId

\* C30: on a run of the page-creation script in which every call succeeds,
\* the calls are, in this order, one GetSchema, one CreateRecord carrying
\* content, one AppendContent addressed to the id of the record just
\* created, and exactly three CreateRecord calls whose properties equal
\* those of the first except for the title value.
C30_CallOrder == []C30_Order /\ [][C30_AppendTarget]_vars

\* The run ended after its six calls
C30_Witness ==
  /\ script = "create" /\ pc = "done" /\ outcome = "success"
  /\ Len(log) = 6 /\ log[3].call.op = "AppendContent"
  /\ log[6].call.properties # log[2].call.properties

----------------------------------------------------------------------------
(* C21..C24, C28: the delimited files (SpecCsv) *)

\* A file was written
Written == script = "csv" /\ projected # NoProjection /\ projected.written

\* The values of the data rows with the text written for each
FieldPairs ==
  IF projected.path = "tasks"
    THEN { [value |-> projected.tasks[i].title, text |-> projected.rows[i][1]] :
             i \in DOMAIN projected.rows }
           \cup { [value |-> projected.tasks[i].url,
                   text |-> projected.rows[i][4]] : i \in DOMAIN projected.rows }
    ELSE { [value |-> projected.values[i][j], text |-> projected.rows[i][j]] :
             i \in DOMAIN projected.rows, j \in DOMAIN projected.header }

RECURSIVE WithQuotesDoubled(_)
WithQuotesDoubled(v) ==
  IF v = << >> THEN << >>
  ELSE IF v[1] = "\"" THEN << "\"", "\"" >> \o WithQuotesDoubled(Tail(v))
  ELSE << v[1] >> \o WithQuotesDoubled(Tail(v))

\* The text of a value under the escaping rule: in double quotes with its
\* double quotes doubled when it holds a comma or a double quote, else as is
EscapedAsRuled(v) ==
  IF \E k \in DOMAIN v : v[k] \in { ",", "\"" }
    THEN << "\"" >> \o WithQuotesDoubled(v) \o << "\"" >>
    ELSE v

\* C21: in every export path a field value that holds a comma or a double
\* quote is written in double quotes with each of its double quotes doubled,
\* and a value without such a character is written as it is.
C21_EscapedWhenSpecial ==
  Written => \A f \in FieldPairs : f.text = EscapedAsRuled(f.value)

\* The text without a byte-order marker at its start
StripBOM(t) == IF t # << >> /\ t[1] = "UFEFF" THEN Tail(t) ELSE t

\* The first line of the file
FirstLine(t) ==
  LET g == StripBOM(t)
      ends == { k \in DOMAIN g : g[k] = "\n" }
  IN  IF ends = {} THEN g
      ELSE SubSeq(g, 1, (CHOOSE k \in ends : \A m \in ends : k <= m) - 1)

\* The column names of the database, in the order of the schema
SchemaNames == [j \in DOMAIN remoteSchema |-> remoteSchema[j].name]

\* C22 as stated: the header line of every exported file is the column names
\* of the schema, in schema order, joined by commas.
C22_HeaderIsSchema ==
  Written =>
    FirstLine(projected.file) = JoinText(SchemaNames, << "," >>)

\* C22, amended: the header line of both exportToCSV is the schema's column
\* names in order joined by commas; the header line of exportToCsv is always
\* the four names of its own (title, due, done, URL), and the header line of
\* saveDataToCsv is always the three keys of the task counter's records.
C22_HeaderPerWriter ==
  Written =>
    FirstLine(projected.file) =
      CASE projected.path \in {"exportToCSV", "contents"} ->
             JoinText(SchemaNames, << "," >>)
        [] projected.path = "tasks" ->
             << "U30BF", "U30A4", "U30C8", "U30EB", ",", "U671F", "U9650", ",",
                "U5B8C", "U4E86", ",", "U", "R", "L" >>
        [] projected.path = "records" ->
             << "U540D", "U524D", ",", "U671F", "U9650", ",",
                "U30B9", "U30C6", "U30FC", "U30BF", "U30B9" >>

\* exportToCsv wrote its own header for a database with other column names
C22_Witness ==
  /\ Written /\ projected.path = "tasks"
  /\ SchemaNames = << NDone, NCommaName >>
  /\ FirstLine(projected.file) # JoinText(SchemaNames, << "," >>)

\* C23 as stated: the file written for spreadsheet consumers ends with the
\* byte-order marker.
C23_EndsWithBOM ==
  (Written /\ projected.path = "exportToCSV") =>
    projected.file[Len(projected.file)] = "UFEFF"

\* C23, amended: the file written for spreadsheet consumers begins with the
\* byte-order marker, which occurs nowhere else in it.
C23_BeginsWithBOM ==
  (Written /\ projected.path = "exportToCSV") =>
    /\ projected.file[1] = "UFEFF"
    /\ \A k \in 2..Len(projected.file) : projected.file[k] # "UFEFF"

\* The file of the simple filter script with the marker, the header and a row
C23_Witness ==
  /\ Written /\ projected.path = "exportToCSV"
  /\ Len(propValue.results) = 1
  /\ projected.file = << "UFEFF", "D", "o", "n", "e", "\n", "\n" >>

\* The checkbox values of the data rows with the text written for each
CheckboxFields ==
  IF projected.path = "tasks"
    THEN { [has |-> projected.tasks[i].completed.defined,
            flag |-> projected.tasks[i].completed.defined
                       /\ projected.tasks[i].completed.v,
            text |-> projected.rows[i][3]] : i \in DOMAIN projected.rows }
  ELSE IF projected.path \in {"exportToCSV", "contents"}
    THEN { [has |-> TRUE,
            flag |-> propValue.results[i][j].value.checkbox,
            text |-> projected.rows[i][j]] :
             i \in DOMAIN projected.rows,
             j \in { c \in DOMAIN remoteSchema :
                       remoteSchema[c].type = "checkbox" } }
  ELSE {}

Hai == << "U306F", "U3044" >>
Iya == << "U3044", "U3044", "U3048" >>
Quoted(s) == << "\"" >> \o s \o << "\"" >>

\* C24 as stated: in every export path a checkbox value is written as the
\* localized yes or no, and an absent value as the empty string.
C24_LocalizedToken ==
  Written =>
    \A f \in CheckboxFields :
      IF ~f.has THEN f.text = << >>
      ELSE IF f.flag THEN f.text \in { Hai, Quoted(Hai) }
      ELSE f.text \in { Iya, Quoted(Iya) }

\* C24, amended: exportToCsv writes a checkbox value as the localized yes or
\* no in double quotes and an absent value as the empty string; exportToCSV
\* of the bootstrap writes it as TRUE or FALSE in double quotes; exportToCSV
\* of the simple filter script has no rule for a checkbox and writes the
\* empty string.
C24_TokenPerWriter ==
  Written =>
    \A f \in CheckboxFields :
      f.text =
        CASE projected.path = "tasks" ->
               IF ~f.has THEN << >>
               ELSE IF f.flag THEN Quoted(Hai) ELSE Quoted(Iya)
          [] projected.path = "contents" ->
               IF f.flag THEN << "\"", "T", "R", "U", "E", "\"" >>
               ELSE << "\"", "F", "A", "L", "S", "E", "\"" >>
          [] projected.path = "exportToCSV" -> << >>

\* exportToCsv wrote the yes of a checked task
C24_Witness ==
  /\ Written /\ projected.path = "tasks"
  /\ \E f \in CheckboxFields : f.has /\ f.flag /\ f.text = Quoted(Hai)

\* A character of the text is inside double quotes
InsideQuotes(t, k) ==
  Cardinality({ m \in 1..(k - 1) : t[m] = "\"" }) % 2 = 1

\* The ends of the records of the text, and the separators of its fields
RecordEnds(t) == { k \in DOMAIN t : t[k] = "\n" /\ ~InsideQuotes(t, k) }
Separators(t) == { k \in DOMAIN t : t[k] = "," /\ ~InsideQuotes(t, k) }

\* The records of the text as pairs of the positions around them; the text
\* after the last line break is a record when it is not empty
RecordSpans(t) ==
  { << a, b >> \in (({0} \cup RecordEnds(t)) \X
                     (RecordEnds(t) \cup {Len(t) + 1})) :
      /\ a < b
      /\ \A k \in RecordEnds(t) : ~(a < k /\ k < b)
      /\ ~(a = Len(t) /\ b = Len(t) + 1) }

FieldCount(t, span) ==
  1 + Cardinality({ k \in Separators(t) : span[1] < k /\ k < span[2] })

\* C28: in every file produced, each data row has exactly as many fields as
\* the header line, whatever the values and the column names.
C28_RowsMatchHeader ==
  Written =>
    LET t == StripBOM(projected.file)
        head == CHOOSE s \in RecordSpans(t) : s[1] = 0
    IN  /\ Cardinality(RecordSpans(t)) = 1 + Len(projected.rows)
        /\ \A s \in RecordSpans(t) : FieldCount(t, s) = FieldCount(t, head)

====
